---- MODULE Spec2Model ----
(***************************************************************************)
(* Multi-target command collection and structured extraction               *)
(* (swid-tom/show_runner): the web front-end src/StreamLit/app.py and the  *)
(* desktop front-end src/Tkinter/tk_collector_app.py.                      *)
(*                                                                         *)
(* Texts (command output, host identifiers, patterns) are sequences of     *)
(* one-character strings, so that splitting, trimming and matching are     *)
(* computed the way the Python code computes them.                         *)
(***************************************************************************)
EXTENDS Integers, Sequences, FiniteSets, TLC

(* ------------------------------ bounds --------------------------------- *)
\* longest target list of a run
MaxHosts == 3
\* largest worker count the user may enter (the spin box allows 1..500)
MaxWorkers == 2
\* longest output text enumerated for the line corpus builder
MaxOutLen == 3
MaxPairs == 2
\* latest reading of the clock
MaxClock == 2
\* greatest "Max splits" entered
MaxSplit == 2
\* template lookups made, template bundles loaded
MaxLookups == 2
MaxLoads == 2
\* directories of a bundle that hold an index file
MaxIndexDirs == 2

(* ------------------------------ texts ---------------------------------- *)
NL == "\n"
CR == "\r"

\* Python's None as a line number (line numbers start at 1)
None == 0
\* Python's None in place of an output text: a value that is no text (its
\* element is not a character)
NoOutput == <<"<None>">>

RECURSIVE SeqsUpTo(_, _)
\* all sequences over S of length 0..n
SeqsUpTo(S, n) ==
    IF n = 0 THEN {<<>>}
    ELSE LET shorter == SeqsUpTo(S, n - 1)
         IN  shorter \cup {Append(s, x) : s \in {t \in shorter : Len(t) = n - 1}, x \in S}

\* truthiness of a str-or-None value: None and the empty string are falsy
Truthy(s) == s # NoOutput /\ s # <<>>

IsSpace(c) == c \in {" ", "\t", NL, CR}

RECURSIVE LStrip(_)
LStrip(s) == IF s # <<>> /\ IsSpace(Head(s)) THEN LStrip(Tail(s)) ELSE s

RECURSIVE RStrip(_)
RStrip(s) ==
    IF s # <<>> /\ IsSpace(s[Len(s)]) THEN RStrip(SubSeq(s, 1, Len(s) - 1)) ELSE s

\* str.strip()
Strip(s) == RStrip(LStrip(s))

RECURSIVE SplitFrom(_, _, _, _)
\* the scan of str.splitlines(): a line ends at "\n", "\r" or "\r\n"; text after
\* the last line end is a last line only if it is not empty
SplitFrom(s, i, cur, acc) ==
    IF i > Len(s) THEN (IF cur # <<>> THEN Append(acc, cur) ELSE acc)
    ELSE IF s[i] = CR /\ i < Len(s) /\ s[i + 1] = NL
         THEN SplitFrom(s, i + 2, <<>>, Append(acc, cur))
    ELSE IF s[i] \in {NL, CR}
         THEN SplitFrom(s, i + 1, <<>>, Append(acc, cur))
    ELSE SplitFrom(s, i + 1, Append(cur, s[i]), acc)

\* str.splitlines()
splitlines(s) == SplitFrom(s, 1, <<>>, <<>>)

RECURSIVE Concat(_)
\* concatenation of a sequence of sequences
Concat(ss) == IF ss = <<>> THEN <<>> ELSE Head(ss) \o Concat(Tail(ss))

(* --------------------------- run_command ------------------------------- *)
\* Exception classes the session provider can raise.  All derive from Exception.
ExcAuth    == "NetmikoAuthenticationException"
ExcTimeout == "NetmikoTimeoutException"
ExcConn    == "ConnectionRefusedError"
ExcOther   == "ValueError"
ExcImport  == "ImportError"
\* netmiko's ReadTimeout, raised by send_command(..., read_timeout=...); it does
\* not derive from NetmikoTimeoutException
ExcRead    == "ReadTimeout"

\* no exception
NoExc == [cls |-> "none", msg |-> ""]
Exc(c, m) == [cls |-> c, msg |-> m]
Raised(e) == e.cls # "none"

\* What a call of run_command leaves in its future: the (host, output, error)
\* triple it returns (error is "" on success), or an exception that escaped it
\* (raised), which fut.result() re-raises in the collector loop.
Result(h, out, err) == [host |-> h, output |-> out, err |-> err, raised |-> FALSE]
Escaped(h) == [host |-> h, output |-> <<>>, err |-> <<>>, raised |-> TRUE]

\* HandleConnExc without its "except NetmikoTimeoutException" clause and with a
\* last clause that catches nothing: a timeout escapes run_command
HandleConnExcEscaping(host, e) ==
    IF e.cls = ExcAuth THEN Result(host, <<>>, <<"Authentication failed">>)
    ELSE Escaped(host)

\* HandleConnExc with the timeout clause after the catch-all clause: a timeout
\* is reported as "Error: ..."
HandleConnExcShadowed(host, e) ==
    IF e.cls = ExcAuth THEN Result(host, <<>>, <<"Authentication failed">>)
    ELSE Result(host, <<>>, <<"Error: ", e.msg>>)

\* the except chain of run_command's second try block
HandleConnExc(host, e) ==
    IF e.cls = ExcAuth THEN Result(host, <<>>, <<"Authentication failed">>)
    ELSE IF e.cls = ExcTimeout THEN Result(host, <<>>, <<"Timeout">>)
    ELSE Result(host, <<>>, <<"Error: ", e.msg>>)

\* run_command(host, ...) against a provider that behaves as b:
\*   b.imp   the import of netmiko (NoExc or an exception),
\*   b.conn  ConnectHandler(...),
\*   b.prime send_command("terminal length 0"), whose failure is swallowed,
\*   b.cmd   send_command(command) raising, or returning b.out,
\*   b.disc  conn.disconnect()
run_command(host, b) ==
    IF Raised(b.imp) THEN Result(host, <<>>, <<"Netmiko not available: ", b.imp.msg>>)
    ELSE IF Raised(b.conn) THEN HandleConnExc(host, b.conn)
    ELSE IF Raised(b.cmd) THEN HandleConnExc(host, b.cmd)
    ELSE IF Raised(b.disc) THEN HandleConnExc(host, b.disc)
    ELSE Result(host, b.out, <<>>)

(* --------------------------- df_from_raw ------------------------------- *)
LineRecord(h, n, l, ts) == [host |-> h, line_no |-> n, line |-> l, ts |-> ts]

\* RowsOf without the sentinel of an empty output
RowsOfNoSentinel(host, output, keep_empty_rows, now_iso) ==
    LET lines == IF Truthy(output) THEN splitlines(output) ELSE <<>>
    IN  [i \in 1..Len(lines) |-> LineRecord(host, i, lines[i], now_iso)]

\* RowsOf numbering the lines from 0 (enumerate without start=1)
RowsOfFromZero(host, output, keep_empty_rows, now_iso) ==
    LET lines == IF Truthy(output) THEN splitlines(output) ELSE <<>>
    IN  (IF keep_empty_rows /\ lines = <<>>
         THEN <<LineRecord(host, None, <<>>, now_iso)>> ELSE <<>>)
        \o [i \in 1..Len(lines) |-> LineRecord(host, i - 1, lines[i], now_iso)]

\* RowsOf with a sentinel row that lacks the time stamp
RowsOfSentinelUnstamped(host, output, keep_empty_rows, now_iso) ==
    LET lines == IF Truthy(output) THEN splitlines(output) ELSE <<>>
    IN  (IF keep_empty_rows /\ lines = <<>>
         THEN <<LineRecord(host, None, <<>>, None)>> ELSE <<>>)
        \o [i \in 1..Len(lines) |-> LineRecord(host, i, lines[i], now_iso)]

\* the rows df_from_raw appends for one (host, output) pair
RowsOf(host, output, keep_empty_rows, now_iso) ==
    LET lines == IF Truthy(output) THEN splitlines(output) ELSE <<>>
    IN  (IF keep_empty_rows /\ lines = <<>>
         THEN <<LineRecord(host, None, <<>>, now_iso)>> ELSE <<>>)
        \o [i \in 1..Len(lines) |-> LineRecord(host, i, lines[i], now_iso)]

\* df_from_raw(outputs, keep_empty_rows), called when the clock reads now_iso
df_from_raw(outputs, keep_empty_rows, now_iso) ==
    Concat([k \in 1..Len(outputs) |->
              RowsOf(outputs[k][1], outputs[k][2], keep_empty_rows, now_iso)])

(* ------------------------ regular expressions -------------------------- *)
\* The patterns of the model are built from literal characters, ".", "^", "$",
\* "(" and ")": no repetition, no alternation, no classes.  The opening of a
\* named group, (?P<a> or (?P<b>, is one element of the pattern.

\* str.lower() on one character of the model's alphabet
Lower(c) ==
    IF c = "A" THEN "a" ELSE IF c = "B" THEN "b" ELSE IF c = "R" THEN "r"
    ELSE IF c = "W" THEN "w" ELSE c

\* the elements that open a group, and the name of the group each opens ("" for
\* a group without a name)
IsOpener(tok) == tok \in {"(", "(?P<a>", "(?P<b>"}
GroupName(tok) == IF tok = "(?P<a>" THEN "a" ELSE IF tok = "(?P<b>" THEN "b" ELSE ""

\* the positions in p of the openers, in order: group g opens at Openers(p)[g]
Openers(p) == SelectSeq([i \in 1..Len(p) |-> i], LAMBDA i : IsOpener(p[i]))

\* whether two groups of p bear the same name (re.error: redefinition of group
\* name)
NameRedefined(p) ==
    \E i, j \in 1..Len(p) :
        i < j /\ IsOpener(p[i]) /\ GroupName(p[i]) # "" /\ p[j] = p[i]

RECURSIVE ParensBalanced(_, _, _)
\* whether the parentheses of p[i..] close properly, `open` groups being open
ParensBalanced(p, i, open) ==
    IF i > Len(p) THEN open = 0
    ELSE IF IsOpener(p[i]) THEN ParensBalanced(p, i + 1, open + 1)
    ELSE IF p[i] = ")" THEN open > 0 /\ ParensBalanced(p, i + 1, open - 1)
    ELSE ParensBalanced(p, i + 1, open)

\* whether re.compile(p) succeeds (it raises re.error otherwise)
Compiles(p) == ParensBalanced(p, 1, 0) /\ ~NameRedefined(p)

RECURSIVE MatchAt(_, _, _, _, _)
\* whether p[k..] matches t from position pos on
MatchAt(p, k, t, pos, ignorecase) ==
    IF k > Len(p) THEN TRUE
    ELSE IF IsOpener(p[k]) \/ p[k] = ")" THEN MatchAt(p, k + 1, t, pos, ignorecase)
    ELSE IF p[k] = "^" THEN pos = 1 /\ MatchAt(p, k + 1, t, pos, ignorecase)
    ELSE IF p[k] = "$"
         THEN /\ \/ pos = Len(t) + 1
                 \/ pos = Len(t) /\ t[pos] = NL
              /\ MatchAt(p, k + 1, t, pos, ignorecase)
    ELSE /\ pos <= Len(t)
         /\ IF p[k] = "." THEN t[pos] # NL
            ELSE IF ignorecase THEN Lower(p[k]) = Lower(t[pos])
            ELSE p[k] = t[pos]
         /\ MatchAt(p, k + 1, t, pos + 1, ignorecase)

\* whether re.compile(p, flags).search(t) finds a match
Search(p, t, ignorecase) == \E pos \in 1..(Len(t) + 1) : MatchAt(p, 1, t, pos, ignorecase)

\* the number of characters the elements p[1..k-1] take from the text
Consumed(p, k) ==
    Cardinality({i \in 1..(k - 1) : ~IsOpener(p[i]) /\ p[i] \notin {")", "^", "$"}})

RECURSIVE CloserFrom(_, _, _)
\* the position of the ")" that closes the group opened before p[i], `open`
\* groups having been opened since
CloserFrom(p, i, open) ==
    IF p[i] = ")" THEN (IF open = 0 THEN i ELSE CloserFrom(p, i + 1, open - 1))
    ELSE IF IsOpener(p[i]) THEN CloserFrom(p, i + 1, open + 1)
    ELSE CloserFrom(p, i + 1, open)

\* where re.search finds the pattern in t: the leftmost position, 0 if none
FirstMatch(p, t, ignorecase) ==
    LET at == {pos \in 1..(Len(t) + 1) : MatchAt(p, 1, t, pos, ignorecase)}
    IN  IF at = {} THEN 0 ELSE CHOOSE pos \in at : \A q \in at : pos <= q

\* the column Series.str.extract gives group g: its name, or its number from 0
ColumnOfGroup(p, g) ==
    IF GroupName(p[Openers(p)[g]]) # "" THEN GroupName(p[Openers(p)[g]])
    ELSE ToString(g - 1)

\* what group g of p captured in the match of p that starts at start in t
Captured(p, t, start, g) ==
    LET from == Openers(p)[g]
        to   == CloserFrom(p, from + 1, 0)
    IN  SubSeq(t, start + Consumed(p, from), start + Consumed(p, to) - 1)

\* Python's None in place of a compiled pattern
NoPattern == <<"<None>">>

\* safe_regex(pattern): the pattern compiled with re.IGNORECASE, or None when it
\* is empty or does not compile
safe_regex(pattern) ==
    IF pattern = <<>> THEN NoPattern
    ELSE IF Compiles(pattern) THEN pattern
    ELSE NoPattern

(* --------------------------- apply_filters ----------------------------- *)
\* What a call of apply_filters leaves: the frame it returns (df), or an
\* exception (raised; pandas compiles the pattern of Series.str.contains and
\* lets re.error through); the contents of the frame it was given as they are
\* after the call (arg); whether the frame returned is the very object it was
\* given (same).
Returned(df, out) == [raised |-> FALSE, df |-> out, arg |-> df, same |-> FALSE]
ReturnedInput(df) == [raised |-> FALSE, df |-> df, arg |-> df, same |-> TRUE]
RaisedError(df) == [raised |-> TRUE, df |-> <<>>, arg |-> df, same |-> FALSE]
NotCalled == [raised |-> FALSE, df |-> <<>>, arg |-> <<>>, same |-> FALSE]

\* out[out[col].str.contains(pat, case=False, na=False)], or its complement:
\* str.contains takes pat as a regular expression
KeepContains(out, col, pat, negate) ==
    SelectSeq(out, LAMBDA r : Search(pat, r[col], TRUE) # negate)

\* out[out["line"].str.contains(r)] with a pattern compiled by safe_regex, or
\* its complement
KeepCompiled(out, r, negate) ==
    SelectSeq(out, LAMBDA rec : Search(r, rec.line, TRUE) # negate)

\* a stage that takes its mask from the rows of df by position, not from the
\* rows still in out
KeepContainsByPosition(df, out, col, pat, negate) ==
    LET idx == {i \in DOMAIN out : Search(pat, df[i][col], TRUE) # negate}
        RECURSIVE Pick(_)
        Pick(i) == IF i > Len(out) THEN <<>>
                   ELSE (IF i \in idx THEN <<out[i]>> ELSE <<>>) \o Pick(i + 1)
    IN  Pick(1)

\* apply_filters with the include-text stage masking by position
apply_filters_by_position(df, host_contains, include_text, exclude_text, include_regex, exclude_regex) ==
    IF df = <<>> THEN ReturnedInput(df)
    ELSE IF \E f \in {host_contains, include_text, exclude_text} : f # <<>> /\ ~Compiles(f)
    THEN RaisedError(df)
    ELSE LET out1 == IF host_contains # <<>>
                     THEN KeepContains(df, "host", host_contains, FALSE) ELSE df
             out2 == IF include_text # <<>>
                     THEN KeepContainsByPosition(df, out1, "line", include_text, FALSE)
                     ELSE out1
             out3 == IF exclude_text # <<>>
                     THEN KeepContains(out2, "line", exclude_text, TRUE) ELSE out2
             r_inc == safe_regex(include_regex)
             out4 == IF r_inc # NoPattern THEN KeepCompiled(out3, r_inc, FALSE) ELSE out3
             r_exc == safe_regex(exclude_regex)
             out5 == IF r_exc # NoPattern THEN KeepCompiled(out4, r_exc, TRUE) ELSE out4
         IN  Returned(df, out5)

\* apply_filters without df.copy(), each stage dropping rows in place
apply_filters_in_place(df, host_contains, include_text, exclude_text, include_regex, exclude_regex) ==
    IF df = <<>> THEN ReturnedInput(df)
    ELSE IF \E f \in {host_contains, include_text, exclude_text} : f # <<>> /\ ~Compiles(f)
    THEN RaisedError(df)
    ELSE LET out1 == IF host_contains # <<>>
                     THEN KeepContains(df, "host", host_contains, FALSE) ELSE df
             out2 == IF include_text # <<>>
                     THEN KeepContains(out1, "line", include_text, FALSE) ELSE out1
             out3 == IF exclude_text # <<>>
                     THEN KeepContains(out2, "line", exclude_text, TRUE) ELSE out2
             r_inc == safe_regex(include_regex)
             out4 == IF r_inc # NoPattern THEN KeepCompiled(out3, r_inc, FALSE) ELSE out3
             r_exc == safe_regex(exclude_regex)
             out5 == IF r_exc # NoPattern THEN KeepCompiled(out4, r_exc, TRUE) ELSE out4
         IN  [raised |-> FALSE, df |-> out5, arg |-> out5, same |-> TRUE]

\* apply_filters(df, host_contains, include_text, exclude_text, include_regex,
\* exclude_regex)
apply_filters(df, host_contains, include_text, exclude_text, include_regex, exclude_regex) ==
    IF df = <<>> THEN ReturnedInput(df)
    ELSE IF \E f \in {host_contains, include_text, exclude_text} : f # <<>> /\ ~Compiles(f)
    THEN RaisedError(df)
    ELSE LET out1 == IF host_contains # <<>>
                     THEN KeepContains(df, "host", host_contains, FALSE) ELSE df
             out2 == IF include_text # <<>>
                     THEN KeepContains(out1, "line", include_text, FALSE) ELSE out1
             out3 == IF exclude_text # <<>>
                     THEN KeepContains(out2, "line", exclude_text, TRUE) ELSE out2
             r_inc == safe_regex(include_regex)
             out4 == IF r_inc # NoPattern THEN KeepCompiled(out3, r_inc, FALSE) ELSE out3
             r_exc == safe_regex(exclude_regex)
             out5 == IF r_exc # NoPattern THEN KeepCompiled(out4, r_exc, TRUE) ELSE out4
         IN  Returned(df, out5)

(* ------------------------------ frames --------------------------------- *)
\* A DataFrame as the extraction tiers see it: whether it has the columns of the
\* line corpus (pd.DataFrame() and pd.DataFrame([]) have none), and its rows,
\* each under its index label.  df_from_raw labels the rows from 0; boolean
\* indexing, as in apply_filters, keeps the labels of the rows it keeps.
Frame(df) ==
    [columns |-> df # <<>>,
     rows |-> [k \in 1..Len(df) |-> df[k] @@ ("label" :> (k - 1))]]

\* pd.DataFrame()
EmptyFrame == [columns |-> FALSE, rows |-> <<>>]

\* DataFrame.empty
IsEmpty(frame) == frame.rows = <<>>

\* an absent value (NaN, None)
NaN == <<"<NaN>">>

Labels(rows) == {rows[k].label : k \in DOMAIN rows}

\* the i-th smallest element of a set of numbers
NthSmallest(S, i) == CHOOSE x \in S : Cardinality({y \in S : y < x}) = i - 1

\* df[["host", "line_no", "line"]].reset_index(drop=True): the three columns,
\* the rows labelled anew from 0
reset_index(rows) ==
    [k \in 1..Len(rows) |->
        [label |-> k - 1, host |-> rows[k].host, line_no |-> rows[k].line_no,
         line |-> rows[k].line]]

\* pd.concat([left, right], axis=1): one row per label of either frame, each
\* side's columns absent where that side has no row under the label
concat(left, right) ==
    LET labels == Labels(left) \cup Labels(right)
        at(rows, l) == CHOOSE k \in DOMAIN rows : rows[k].label = l
    IN  [i \in 1..Cardinality(labels) |->
            LET l == NthSmallest(labels, i)
            IN  [label |-> l,
                 host |-> IF l \in Labels(left) THEN left[at(left, l)].host ELSE NaN,
                 line_no |-> IF l \in Labels(left) THEN left[at(left, l)].line_no ELSE NaN,
                 line |-> IF l \in Labels(left) THEN left[at(left, l)].line ELSE NaN,
                 vals |-> IF l \in Labels(right) THEN right[at(right, l)].vals ELSE NaN]]

(* ---------------------------- pattern tier ------------------------------ *)
\* the columns Series.str.extract gives for a pattern
ColumnsOf(p) == {ColumnOfGroup(p, g) : g \in 1..Len(Openers(p))}

\* df["line"].str.extract(pattern, flags=re.IGNORECASE): under each label the
\* captures of the first match in the line, all absent when nothing matches
str_extract(rows, p) ==
    [k \in 1..Len(rows) |->
        LET start == FirstMatch(p, rows[k].line, TRUE)
        IN  [label |-> rows[k].label,
             vals |-> [c \in ColumnsOf(p) |->
                         IF start = 0 THEN NaN
                         ELSE Captured(p, rows[k].line, start,
                                       CHOOSE g \in 1..Len(Openers(p)) :
                                           ColumnOfGroup(p, g) = c)]]]

\* What the pattern tier leaves: the exception that escaped it (exc, "" if
\* none), the message it showed (outcome) and the pattern result (df_regex).
TierResult(exc, outcome, df_regex) == [exc |-> exc, outcome |-> outcome, df_regex |-> df_regex]

\* The regex expander of the web front-end and _apply_regex_extract of the
\* desktop front-end, on the frame src and the pattern typed; stored is the
\* pattern result held before (the desktop front-end keeps it in the DataStore,
\* the web front-end starts every script run without one).
regex_extract(a, stored, src, typed) ==
    LET pattern == IF a = "tkinter" THEN Strip(typed) ELSE typed
        kept == IF a = "tkinter" THEN stored ELSE <<>>
    IN  IF Strip(typed) = <<>> THEN TierResult("", "no pattern", kept)
        ELSE IF ~src.columns THEN TierResult("KeyError", "", kept)
        ELSE IF ~Compiles(pattern) THEN TierResult("", "Invalid regex", kept)
        ELSE IF Openers(pattern) = <<>> THEN TierResult("ValueError", "", kept)
        ELSE LET matches == str_extract(src.rows, pattern)
                 df_regex == concat(reset_index(src.rows), matches)
                 non_null == {matches[k].label : k \in
                                 {j \in DOMAIN matches :
                                    \E c \in ColumnsOf(pattern) : matches[j].vals[c] # NaN}}
             IN  IF matches = <<>>
                 THEN TierResult("", "Regex valid but no lines matched", kept)
                 ELSE IF ~(Labels(df_regex) \subseteq Labels(matches))
                 THEN TierResult("IndexingError", "", kept)
                 ELSE IF a = "streamlit" /\ \E g \in 2..Len(Openers(pattern)) :
                                               GroupName(pattern[Openers(pattern)[g]]) = ""
                 THEN TierResult("TypeError", "", kept)
                 ELSE TierResult("", "Extracted columns",
                                 SelectSeq(df_regex, LAMBDA r : r.label \in non_null))

(* ----------------------------- split tier ------------------------------ *)
\* the first position from i on where t holds a blank (want) or a non-blank
\* (~want), Len(t) + 1 if there is none
NextAt(t, i, want) ==
    LET at == {j \in i..Len(t) : IsSpace(t[j]) = want}
    IN  IF at = {} THEN Len(t) + 1 ELSE CHOOSE j \in at : \A q \in at : j <= q

RECURSIVE SplitWhitespace(_, _, _)
\* t[i..].split(None, n): the words between runs of blanks; with n splits done
\* the rest of the text, from its first non-blank, is the last part (n = -1: no
\* limit)
SplitWhitespace(t, i, n) ==
    LET from == NextAt(t, i, FALSE)
        to   == NextAt(t, from, TRUE)
    IN  IF from > Len(t) THEN <<>>
        ELSE IF n = 0 THEN <<SubSeq(t, from, Len(t))>>
        ELSE <<SubSeq(t, from, to - 1)>>
             \o SplitWhitespace(t, to, IF n > 0 THEN n - 1 ELSE n)

RECURSIVE SplitAt(_, _, _, _)
\* t[i..].split(sep, n) for a non-empty sep
SplitAt(t, i, sep, n) ==
    LET at == {j \in i..(Len(t) - Len(sep) + 1) : SubSeq(t, j, j + Len(sep) - 1) = sep}
        j  == CHOOSE x \in at : \A q \in at : x <= q
    IN  IF at = {} \/ n = 0 THEN <<SubSeq(t, i, Len(t))>>
        ELSE <<SubSeq(t, i, j - 1)>>
             \o SplitAt(t, j + Len(sep), sep, IF n > 0 THEN n - 1 ELSE n)

\* the delimiter that asks for a split on runs of blanks
WhitespaceWord == <<"w", "h", "i", "t", "e", "s", "p", "a", "c", "e">>

\* the greatest of a non-empty set of numbers, 0 for the empty set
Widest(S) == IF S = {} THEN 0 ELSE CHOOSE x \in S : \A y \in S : y <= x

\* What split_columns leaves: the exception that escaped it (exc, "" if none),
\* the columns c0, c1, ... of the parts (width, their number) and the rows.
SplitResult(exc, width, rows) == [exc |-> exc, width |-> width, rows |-> rows]

\* split_columns(df_lines, delimiter, maxsplit); a delimiter of one character is
\* split on as it is, a longer one is compiled as a regular expression (those of
\* the model that compile hold literal characters only)
split_columns(src, delimiter, maxsplit) ==
    IF IsEmpty(src) \/ delimiter = <<>> THEN SplitResult("", 0, <<>>)
    ELSE IF [k \in DOMAIN delimiter |-> Lower(delimiter[k])] # WhitespaceWord
            /\ Len(delimiter) > 1 /\ ~Compiles(delimiter)
    THEN SplitResult("re.error", 0, <<>>)
    ELSE LET n == IF maxsplit > 0 THEN maxsplit ELSE -1
             split(t) == IF [k \in DOMAIN delimiter |-> Lower(delimiter[k])] = WhitespaceWord
                         THEN SplitWhitespace(t, 1, n)
                         ELSE SplitAt(t, 1, delimiter, n)
             width == Widest({Len(split(src.rows[k].line)) : k \in DOMAIN src.rows})
             parts == [k \in DOMAIN src.rows |->
                         [label |-> src.rows[k].label,
                          vals |-> [c \in 0..(width - 1) |->
                                      IF c < Len(split(src.rows[k].line))
                                      THEN split(src.rows[k].line)[c + 1] ELSE NaN]]]
         IN  SplitResult("", width, concat(reset_index(src.rows), parts))

\* the split expander of the web front-end and _apply_split of the desktop
\* front-end: nothing is split on a blank delimiter
split_tier(src, delimiter, maxsplit) ==
    IF Strip(delimiter) = <<>> THEN SplitResult("", 0, <<>>)
    ELSE split_columns(src, delimiter, maxsplit)

(* ------------------------- TextFSM utilities --------------------------- *)
\* device types and platforms are atoms; only the command text is trimmed
DEVICE_TYPE_TO_PLATFORM ==
    [dt \in {"cisco_ios", "cisco_xe", "cisco_nxos", "cisco_asa", "arista_eos",
             "juniper_junos"} |->
        IF dt = "cisco_xe" THEN "cisco_ios" ELSE dt]

\* DEVICE_TYPE_TO_PLATFORM.get(device_type, device_type)
PlatformOf(dt) ==
    IF dt \in DOMAIN DEVICE_TYPE_TO_PLATFORM THEN DEVICE_TYPE_TO_PLATFORM[dt] ELSE dt

\* the command texts of the model: "sh", and "sh" followed by a blank
CmdShow == <<"s", "h">>
CmdShowBlank == <<"s", "h", " ">>
CmdOther == <<"s", "x">>

\* str.lower() on the header names the templates of the model use
LowerName(n) ==
    IF n \in {"INTF", "Intf"} THEN "intf"
    ELSE IF n \in {"HOST", "Host"} THEN "host"
    ELSE IF n = "STATUS" THEN "status"
    ELSE n

\* A template: rows are the output lines that begin with the character `key`;
\* the first header holds the line's first character, the second the rest.
Template(p, c, hdr, k) == [platform |-> p, command |-> c, header |-> hdr, key |-> k]

\* The directories of the model's file system and the index each holds
\* (NoIndex: the directory has no index file).
NoDir == ""
NoIndex == {[platform |-> "", command |-> <<>>, header |-> <<>>, key |-> ""]}
DirIndex(d) ==
    IF d = "tplA" THEN {Template("cisco_ios", CmdShow, <<"INTF", "STATUS">>, "a")}
    ELSE IF d = "tplB" THEN {Template("cisco_ios", CmdShow, <<"HOST", "STATUS">>, "a"),
                             Template("cisco_nxos", CmdShow, <<"INTF">>, "b")}
    ELSE NoIndex
IsDir(d) == d \in {"tplA", "tplB", "empty"}
HasIndex(d) == IsDir(d) /\ DirIndex(d) # NoIndex

\* get_textfsm_index_and_dir(): NET_TEXTFSM when it names a directory with an
\* index file, else the first fallback location that holds one, else ("", "")
get_textfsm_index_and_dir(env_dir, fallbacks) ==
    IF env_dir # NoDir /\ IsDir(env_dir) /\ HasIndex(env_dir) THEN env_dir
    ELSE LET found == {k \in 1..Len(fallbacks) : HasIndex(fallbacks[k])}
         IN  IF found = {} THEN NoDir
             ELSE fallbacks[CHOOSE k \in found : \A j \in found : k <= j]

\* the rows a template parses out of a text, as header -> value dictionaries
\* with the header names lower-cased
TemplateRows(t, output) ==
    LET lines == splitlines(output)
        hit == SelectSeq(lines, LAMBDA l : l # <<>> /\ Head(l) = t.key)
        val(l, i) == IF i = 1 THEN <<Head(l)>> ELSE Tail(l)
    IN  [k \in 1..Len(hit) |->
           [n \in {LowerName(t.header[i]) : i \in 1..Len(t.header)} |->
              val(hit[k], CHOOSE i \in 1..Len(t.header) :
                            /\ LowerName(t.header[i]) = n
                            /\ \A j \in 1..Len(t.header) :
                                 LowerName(t.header[j]) = n => j <= i)]]

\* textfsm_parse(platform, command, output) of the desktop front-end:
\* <<rows, reason>>, reason "" on success
textfsm_parse(available, env_dir, fallbacks, platform, command, output) ==
    IF ~available \/ Strip(output) = <<>>
    THEN <<<<>>, <<"textfsm unavailable or empty output">>>>
    ELSE LET tdir == get_textfsm_index_and_dir(env_dir, fallbacks)
         IN  IF tdir = NoDir THEN <<<<>>, <<"templates index not found">>>>
             ELSE LET match == {t \in DirIndex(tdir) :
                                  t.platform = platform /\ t.command = Strip(command)}
                  IN  IF match = {}
                      THEN <<<<>>, <<"textfsm error: ", "No template found for attributes">>>>
                      ELSE LET rows == TemplateRows(CHOOSE t \in match : TRUE, output)
                           IN  IF rows = <<>>
                               THEN <<<<>>, <<"no rows parsed (template returned zero matches)">>>>
                               ELSE <<rows, <<>>>>

\* textfsm_parse(platform, command, output) of the web front-end: the rows only,
\* the empty list whenever there is nothing to return
textfsm_parse_rows(available, env_dir, fallbacks, platform, command, output) ==
    IF ~available \/ Strip(output) = <<>> THEN <<>>
    ELSE LET tdir == get_textfsm_index_and_dir(env_dir, fallbacks)
         IN  IF tdir = NoDir THEN <<>>
             ELSE LET match == {t \in DirIndex(tdir) :
                                  t.platform = platform /\ t.command = Strip(command)}
                  IN  IF match = {} THEN <<>>
                      ELSE TemplateRows(CHOOSE t \in match : TRUE, output)

\* no reason comes with the rows
NoReason == <<"<no reason>">>

\* what the template tier of front-end a hands its caller: rows, and a reason
\* where the front-end's textfsm_parse returns one
TemplateTier(a, available, env_dir, fallbacks, platform, command, output) ==
    IF a = "streamlit"
    THEN [rows |-> textfsm_parse_rows(available, env_dir, fallbacks, platform, command,
                                      output),
          reason |-> NoReason, raised |-> FALSE]
    ELSE LET p == textfsm_parse(available, env_dir, fallbacks, platform, command, output)
         IN  [rows |-> p[1], reason |-> p[2], raised |-> FALSE]

(* ------------------------------ state ---------------------------------- *)
VARIABLES
    app,                \* which front-end runs: "streamlit" or "tkinter"
    prefer_textfsm,     \* the "Prefer TextFSM when available" check box
    device_type,        \* the device_type entry
    command,            \* the command entry
    TEXTFSM_AVAILABLE,  \* whether the textfsm import succeeded
    NET_TEXTFSM,        \* os.environ["NET_TEXTFSM"]
    hosts,              \* the target list of the current run
    workers,            \* max_workers of the pool
    pc,                 \* where the collection is: idle, submit, collect, shutdown, complete, done
    submitted,          \* how many futures have been submitted
    fut,                \* the futures: state and result of each target's call
    order,              \* the futures as_completed has yielded, in that order
    done,               \* the completed counter of the collector loop
    raw_outputs,        \* (host, output) pairs of the successful targets
    errors,             \* {host, error} entries
    structured_rows,    \* template-tier rows
    df_lines_all,       \* the line corpus built from raw_outputs
    running,            \* CollectorApp.running
    clock,              \* what datetime.utcnow() reads
    call                \* the call of a pure function under check: arguments and result

vars == <<app, prefer_textfsm, device_type, command, TEXTFSM_AVAILABLE, NET_TEXTFSM,
          hosts, workers, pc, submitted, fut, order, done, raw_outputs, errors,
          structured_rows, df_lines_all, running, clock, call>>

\* the settings no collection step changes
settings == <<app, prefer_textfsm, device_type, command, TEXTFSM_AVAILABLE, NET_TEXTFSM,
              clock, call>>

(* --------------------------- the inputs -------------------------------- *)
R1 == <<"r", "1">>
R2 == <<"r", "2">>
Hosts == {R1, R2}
\* the non-empty target lists, duplicates included; the two identifiers are
\* interchangeable for the collector, so the first target is r1
HostLists == {hs \in SeqsUpTo(Hosts, MaxHosts) : hs # <<>> /\ hs[1] = R1}

\* the locations get_textfsm_index_and_dir falls back to (the installed
\* ntc_templates package, the bundled copy, the copy next to the script):
\* none of them holds templates in the model's file system
Fallbacks == <<"site-packages", "bundle", "here">>

Quiet == [imp |-> NoExc, conn |-> NoExc, prime |-> NoExc, cmd |-> NoExc, disc |-> NoExc,
          out |-> <<>>]
\* provider behaviours a target's call can show during a run: two lines of
\* output, no output after a failed priming command, a connection timeout
ExecBehaviours ==
    { [Quiet EXCEPT !.out = <<"a", "b", NL, "c">>],
      [Quiet EXCEPT !.prime = Exc(ExcOther, "bad")],
      [Quiet EXCEPT !.conn = Exc(ExcTimeout, "timed out")] }

NoCall == [op |-> "none"]

(* ------------------------- the collection run -------------------------- *)
Pending == [st |-> "pending", res |-> Result(<<>>, <<>>, <<>>)]

\* the calls in flight: started, not returned
InFlight == {i \in DOMAIN fut : fut[i].st \in {"running", "hung"}}

ExecInit ==
    /\ app \in {"streamlit", "tkinter"}
    /\ prefer_textfsm \in BOOLEAN
    /\ device_type = "cisco_xe"
    /\ command = CmdShowBlank
    /\ TEXTFSM_AVAILABLE = TRUE
    /\ NET_TEXTFSM = "tplA"
    /\ hosts = <<>>
    /\ workers = 1
    /\ pc = "idle"
    /\ submitted = 0
    /\ fut = <<>>
    /\ order = <<>>
    /\ done = 0
    /\ raw_outputs = <<>>
    /\ errors = <<>>
    /\ structured_rows = <<>>
    /\ df_lines_all = <<>>
    /\ running = FALSE
    /\ clock = 0
    /\ call = NoCall

Init == ExecInit

(* ------------------- the functions called on their own ----------------- *)
\* A function of either application called outside a collection run: call holds
\* the arguments and, once it has returned, the result.
FunctionInit ==
    /\ app \in {"streamlit", "tkinter"}
    /\ prefer_textfsm = FALSE
    /\ device_type = "cisco_xe"
    /\ command = CmdShowBlank
    /\ TEXTFSM_AVAILABLE = TRUE
    /\ NET_TEXTFSM = "tplA"
    /\ hosts = <<>>
    /\ workers = 1
    /\ pc = "idle"
    /\ submitted = 0
    /\ fut = <<>>
    /\ order = <<>>
    /\ done = 0
    /\ raw_outputs = <<>>
    /\ errors = <<>>
    /\ structured_rows = <<>>
    /\ df_lines_all = <<>>
    /\ running = FALSE
    /\ clock = 0

collection == <<app, prefer_textfsm, device_type, command, TEXTFSM_AVAILABLE, NET_TEXTFSM,
                hosts, workers, pc, submitted, fut, order, done, raw_outputs, errors,
                structured_rows, df_lines_all, running, clock>>

\* What the provider may do during one run_command: the import fails or not;
\* the connection is refused, times out, fails authentication or opens; the
\* priming command fails or not; the command fails, times out reading or
\* returns; the disconnect fails or not.
ProviderBehaviours ==
    [ imp   : {NoExc, Exc(ExcImport, "no module")},
      conn  : {NoExc, Exc(ExcAuth, "denied"), Exc(ExcTimeout, "timed out"),
               Exc(ExcConn, "refused")},
      prime : {NoExc, Exc(ExcOther, "bad")},
      cmd   : {NoExc, Exc(ExcRead, "timed out"), Exc(ExcOther, "refused")},
      disc  : {NoExc, Exc(ExcOther, "bad")},
      out   : {<<>>, <<"a">>} ]

\* run_command is called for one host against two provider behaviours
RunCommandInit ==
    /\ FunctionInit
    /\ \E b1, b2 \in ProviderBehaviours :
          call = [op |-> "run_command", host |-> R1, b1 |-> b1, b2 |-> b2,
                  returned |-> FALSE,
                  r1 |-> Result(<<>>, <<>>, <<>>), r2 |-> Result(<<>>, <<>>, <<>>)]

CallRunCommand ==
    /\ call.op = "run_command"
    /\ ~call.returned
    /\ call' = [call EXCEPT !.returned = TRUE,
                            !.r1 = run_command(call.host, call.b1),
                            !.r2 = run_command(call.host, call.b2)]
    /\ UNCHANGED collection

SpecRunCommand == RunCommandInit /\ [][CallRunCommand]_vars

\* the outputs a target may leave: texts of "a", line feeds and carriage
\* returns, or no output at all
OutputTexts == SeqsUpTo({"a", NL, CR}, MaxOutLen) \cup {NoOutput}

\* the outputs of the pairs before the last one: absent, empty, two lines, one
\* line ended by a carriage return and a line feed
EarlierOutputs == {NoOutput, <<>>, <<"a", NL, "a">>, <<"a", CR, NL>>}

\* up to MaxPairs (host, output) pairs, the last one with any output
OutputLists ==
    {<<>>} \cup {pre \o <<p>> : pre \in SeqsUpTo(Hosts \X EarlierOutputs, MaxPairs - 1),
                                p \in Hosts \X OutputTexts}

\* df_from_raw is called on a list of pairs
DfFromRawInit ==
    /\ FunctionInit
    /\ \E outputs \in OutputLists, keep \in BOOLEAN :
          call = [op |-> "df_from_raw", outputs |-> outputs, keep_empty_rows |-> keep,
                  returned |-> FALSE, ret |-> <<>>]

CallDfFromRaw ==
    /\ call.op = "df_from_raw"
    /\ ~call.returned
    /\ call' = [call EXCEPT !.returned = TRUE,
                            !.ret = df_from_raw(call.outputs, call.keep_empty_rows, clock)]
    /\ UNCHANGED collection

SpecDfFromRaw == DfFromRawInit /\ [][CallDfFromRaw]_vars

\* df_from_raw is called twice on one list of pairs, the clock running
DfFromRawTwiceInit ==
    /\ FunctionInit
    /\ \E outputs \in SeqsUpTo(Hosts \X EarlierOutputs, MaxPairs), keep \in BOOLEAN :
          call = [op |-> "df_from_raw twice", outputs |-> outputs, keep_empty_rows |-> keep,
                  calls |-> 0, at1 |-> 0, ret1 |-> <<>>, at2 |-> 0, ret2 |-> <<>>]

\* time passes: datetime.utcnow() reads later
Tick ==
    /\ clock < MaxClock
    /\ clock' = clock + 1
    /\ UNCHANGED <<app, prefer_textfsm, device_type, command, TEXTFSM_AVAILABLE,
                   NET_TEXTFSM, hosts, workers, pc, submitted, fut, order, done,
                   raw_outputs, errors, structured_rows, df_lines_all, running, call>>

CallDfFromRawFirst ==
    /\ call.op = "df_from_raw twice"
    /\ call.calls = 0
    /\ call' = [call EXCEPT !.calls = 1, !.at1 = clock,
                            !.ret1 = df_from_raw(call.outputs, call.keep_empty_rows, clock)]
    /\ UNCHANGED collection

CallDfFromRawSecond ==
    /\ call.op = "df_from_raw twice"
    /\ call.calls = 1
    /\ call' = [call EXCEPT !.calls = 2, !.at2 = clock,
                            !.ret2 = df_from_raw(call.outputs, call.keep_empty_rows, clock)]
    /\ UNCHANGED collection

SpecDfFromRawTwice ==
    DfFromRawTwiceInit /\ [][Tick \/ CallDfFromRawFirst \/ CallDfFromRawSecond]_vars

\* The template tier is called twice, on a platform, a command and an output
\* each time; a template bundle may be loaded in between.
TierInputs ==
    [ platform : {"cisco_ios", "cisco_nxos"},
      command  : {CmdShowBlank, CmdOther},
      output   : {<<" ">>, <<"a", "x", NL, "b">>, <<"c">>} ]

NoTierResult == [rows |-> <<>>, reason |-> NoReason, raised |-> FALSE]

TemplateTierInit ==
    /\ app \in {"streamlit", "tkinter"}
    /\ prefer_textfsm = TRUE
    /\ device_type = "cisco_xe"
    /\ command = CmdShowBlank
    /\ TEXTFSM_AVAILABLE \in BOOLEAN
    /\ NET_TEXTFSM \in {NoDir, "empty", "tplA", "tplB"}
    /\ hosts = <<>>
    /\ workers = 1
    /\ pc = "idle"
    /\ submitted = 0
    /\ fut = <<>>
    /\ order = <<>>
    /\ done = 0
    /\ raw_outputs = <<>>
    /\ errors = <<>>
    /\ structured_rows = <<>>
    /\ df_lines_all = <<>>
    /\ running = FALSE
    /\ clock = 0
    /\ \E c1, c2 \in TierInputs :
          call = [op |-> "textfsm_parse", c1 |-> c1, c2 |-> c2, calls |-> 0,
                  env1 |-> NoDir, env2 |-> NoDir,
                  r1 |-> NoTierResult, r2 |-> NoTierResult]

\* set_templates_from_zip on a bundle that holds an index: NET_TEXTFSM names the
\* directory it was extracted to
SetTemplatesFromZip(d) ==
    /\ call.op = "textfsm_parse"
    /\ call.calls = 1
    /\ HasIndex(d)
    /\ NET_TEXTFSM # d
    /\ NET_TEXTFSM' = d
    /\ UNCHANGED <<app, prefer_textfsm, device_type, command, TEXTFSM_AVAILABLE, hosts,
                   workers, pc, submitted, fut, order, done, raw_outputs, errors,
                   structured_rows, df_lines_all, running, clock, call>>

CallTemplateTierFirst ==
    /\ call.op = "textfsm_parse"
    /\ call.calls = 0
    /\ call' = [call EXCEPT !.calls = 1, !.env1 = NET_TEXTFSM,
                   !.r1 = TemplateTier(app, TEXTFSM_AVAILABLE, NET_TEXTFSM, Fallbacks,
                                       call.c1.platform, call.c1.command, call.c1.output)]
    /\ UNCHANGED collection

CallTemplateTierSecond ==
    /\ call.op = "textfsm_parse"
    /\ call.calls = 1
    /\ call' = [call EXCEPT !.calls = 2, !.env2 = NET_TEXTFSM,
                   !.r2 = TemplateTier(app, TEXTFSM_AVAILABLE, NET_TEXTFSM, Fallbacks,
                                       call.c2.platform, call.c2.command, call.c2.output)]
    /\ UNCHANGED collection

SpecTemplateTier ==
    TemplateTierInit
    /\ [][CallTemplateTierFirst \/ CallTemplateTierSecond
           \/ \E d \in {"tplA", "tplB"} : SetTemplatesFromZip(d)]_vars

\* the corpora apply_filters is called on: what df_from_raw builds, empty
\* outputs kept, from outputs of one line, of two lines and of none
FilterOutputs == {<<>>, <<"a", "B">>, <<"b", NL, "b", "a">>}

Corpora ==
    {df_from_raw(o, TRUE, 0) : o \in SeqsUpTo(Hosts \X FilterOutputs, MaxPairs)}

\* the filter settings: each field empty, a pattern that selects some records,
\* or a pattern that does not compile
FilterSpecs ==
    [ host_contains : {<<>>, <<"1">>, <<"R">>, <<"(">>},
      include_text  : {<<>>, <<"a">>, <<"(">>},
      exclude_text  : {<<>>, <<"B">>, <<"^", "b", "$">>},
      include_regex : {<<>>, <<".", "a">>, <<"b">>, <<"(">>},
      exclude_regex : {<<>>, <<"A">>, <<"(", "b", ")", "a">>} ]

\* apply_filters is called on a corpus, then on what it returned
ApplyFiltersInit ==
    /\ FunctionInit
    /\ \E df \in Corpora, f \in FilterSpecs :
          call = [op |-> "apply_filters", df |-> df, f |-> f, calls |-> 0,
                  ret1 |-> NotCalled, ret2 |-> NotCalled]

Filtered(df, f) ==
    apply_filters(df, f.host_contains, f.include_text, f.exclude_text, f.include_regex,
                  f.exclude_regex)

CallApplyFilters ==
    /\ call.op = "apply_filters"
    /\ call.calls = 0
    /\ call' = [call EXCEPT !.calls = 1, !.ret1 = Filtered(call.df, call.f)]
    /\ UNCHANGED collection

CallApplyFiltersAgain ==
    /\ call.op = "apply_filters"
    /\ call.calls = 1
    /\ ~call.ret1.raised
    /\ call' = [call EXCEPT !.calls = 2, !.ret2 = Filtered(call.ret1.df, call.f)]
    /\ UNCHANGED collection

SpecApplyFilters ==
    ApplyFiltersInit /\ [][CallApplyFilters \/ CallApplyFiltersAgain]_vars

\* The pattern tier and the split tier are used on the line view of a corpus:
\* outputs of two lines, of one line of three words, and of no line.
TierPairs ==
    { <<R1, <<"a", "b", NL, "b">> >>, <<R2, <<"a", "b", NL, "b">> >>,
      <<R2, <<"a", " ", "b", " ", "b">> >>, <<R1, <<>> >> }

TierCorpora == {Frame(df_from_raw(o, TRUE, 0)) : o \in SeqsUpTo(TierPairs, MaxPairs)}

\* filter settings with every field empty but the regex fields
RegexFilter(inc, exc) ==
    [host_contains |-> <<>>, include_text |-> <<>>, exclude_text |-> <<>>,
     include_regex |-> inc, exclude_regex |-> exc]

\* no filter; one that keeps the lines beginning with b; one that drops the
\* line "b"; one that drops every line
TierFilters ==
    { RegexFilter(<<>>, <<>>), RegexFilter(<<"^", "b">>, <<>>),
      RegexFilter(<<>>, <<"^", "b", "$">>), RegexFilter(<<"x">>, <<>>) }

\* the filtered line view: apply_filters on the corpus, labels kept
FilteredFrame(all, f) == [columns |-> all.columns, rows |-> Filtered(all.rows, f).df]

\* the patterns typed: none, one that does not compile, one without a group,
\* ^(?P<a>a)(?P<b>.)$, (b), (.)(.), (?P<a>x)
TierPatterns ==
    { <<>>, <<"(">>, <<"a">>,
      <<"^", "(?P<a>", "a", ")", "(?P<b>", ".", ")", "$">>,
      <<"(", "b", ")">>,
      <<"(", ".", ")", "(", ".", ")">>,
      <<"(?P<a>", "x", ")">> }

\* the delimiters typed: none, a blank, "whitespace", "Whitespace", "b", "((",
\* "ab"
TierDelimiters ==
    { <<>>, <<" ">>, WhitespaceWord, <<"W">> \o Tail(WhitespaceWord), <<"b">>,
      <<"(", "(">>, <<"a", "b">> }

\* no tier used yet
NoTier ==
    [tier |-> "none", src |-> EmptyFrame, pattern |-> <<>>, delimiter |-> <<>>,
     maxsplit |-> 0, rx |-> TierResult("", "", <<>>), sp |-> SplitResult("", 0, <<>>)]

\* The web front-end computes the filtered view on every script run; in the
\* desktop front-end df_filtered_lines is pd.DataFrame() until "Apply filters"
\* is pressed.
TiersInit ==
    /\ FunctionInit
    /\ \E all \in TierCorpora, f \in TierFilters :
         \E filtered \in {FilteredFrame(all, f)}
                           \cup (IF app = "tkinter" THEN {EmptyFrame} ELSE {}) :
            call = [op |-> "tiers", all |-> all, filtered |-> filtered,
                    df_regex |-> <<>>, last |-> NoTier]

\* the frame the tiers work on: df_filtered_lines in the web front-end; in the
\* desktop front-end df_filtered_lines unless it is empty, df_lines_all then
TierSource ==
    IF app = "tkinter" /\ IsEmpty(call.filtered) THEN call.all ELSE call.filtered

\* the regex expander / "Extract" on a pattern typed
ExtractRegex(pattern) ==
    /\ call.op = "tiers"
    /\ LET rx == regex_extract(app, call.df_regex, TierSource, pattern)
       IN  call' = [call EXCEPT !.df_regex = rx.df_regex,
                                !.last = [NoTier EXCEPT !.tier = "pattern",
                                                        !.src = TierSource,
                                                        !.pattern = pattern,
                                                        !.rx = rx]]
    /\ UNCHANGED collection

\* the split expander / "Split" on a delimiter and a "Max splits" typed
SplitColumns(delimiter, maxsplit) ==
    /\ call.op = "tiers"
    /\ call' = [call EXCEPT !.last = [NoTier EXCEPT
                                !.tier = "split",
                                !.src = TierSource,
                                !.delimiter = delimiter,
                                !.maxsplit = maxsplit,
                                !.sp = split_tier(TierSource, delimiter, maxsplit)]]
    /\ UNCHANGED collection

SpecTiers ==
    TiersInit
    /\ [][\/ \E pattern \in TierPatterns : ExtractRegex(pattern)
          \/ \E delimiter \in TierDelimiters, maxsplit \in 0..MaxSplit :
                SplitColumns(delimiter, maxsplit)]_vars

\* "Run collection" with a hosts input that yields the targets hs and w workers:
\* the results are reset and the pool is created
StartCollection(hs, w) ==
    /\ pc = "idle"
    /\ ~running
    /\ hosts' = hs
    /\ workers' = w
    /\ raw_outputs' = <<>>
    /\ errors' = <<>>
    /\ structured_rows' = <<>>
    /\ df_lines_all' = <<>>
    /\ running' = (app = "tkinter")
    /\ fut' = [i \in 1..Len(hs) |-> Pending]
    /\ submitted' = 0
    /\ order' = <<>>
    /\ done' = 0
    /\ pc' = "submit"
    /\ UNCHANGED settings

\* the dict comprehension has a host left to submit
CanSubmit == pc = "submit" /\ submitted < Len(hosts)

\* executor.submit(run_command, h, ...) for the next host of the list
Submit ==
    /\ CanSubmit
    /\ submitted' = submitted + 1
    /\ pc' = IF submitted + 1 = Len(hosts) THEN "collect" ELSE "submit"
    /\ UNCHANGED <<settings, hosts, workers, fut, order, done, raw_outputs, errors,
                   structured_rows, df_lines_all, running>>

\* a pool that starts a thread per work item, whatever max_workers says
CanStartUnbounded(i) ==
    /\ pc \in {"submit", "collect", "shutdown", "aborted"}
    /\ i \in 1..submitted
    /\ fut[i].st = "pending"
    /\ \A j \in 1..(i - 1) : fut[j].st # "pending"

\* whether a worker thread can take work item i: it is the oldest submitted item
\* not yet started, and fewer than max_workers calls are in flight
CanStart(i) ==
    /\ pc \in {"submit", "collect", "shutdown", "aborted"}
    /\ i \in 1..submitted
    /\ fut[i].st = "pending"
    /\ \A j \in 1..(i - 1) : fut[j].st # "pending"
    /\ Cardinality(InFlight) < workers

\* a worker thread takes the oldest work item off the queue and calls run_command
Start(i) ==
    /\ CanStart(i)
    /\ fut' = [fut EXCEPT ![i].st = "running"]
    /\ UNCHANGED <<settings, hosts, workers, pc, submitted, order, done, raw_outputs,
                   errors, structured_rows, df_lines_all, running>>

\* the provider call of target i is in progress
Calling(i) == i \in DOMAIN fut /\ fut[i].st = "running"

\* the provider call of target i ends as behaviour b says and run_command returns
Return(i, b) ==
    /\ Calling(i)
    /\ fut' = [fut EXCEPT ![i] = [st |-> "finished", res |-> run_command(hosts[i], b)]]
    /\ UNCHANGED <<settings, hosts, workers, pc, submitted, order, done, raw_outputs,
                   errors, structured_rows, df_lines_all, running>>

\* the provider call of target i blocks and never returns
Hang(i) ==
    /\ Calling(i)
    /\ fut' = [fut EXCEPT ![i].st = "hung"]
    /\ UNCHANGED <<settings, hosts, workers, pc, submitted, order, done, raw_outputs,
                   errors, structured_rows, df_lines_all, running>>

\* the three result collections
Store == [raw_outputs |-> raw_outputs, errors |-> errors,
          structured_rows |-> structured_rows]

\* {"host": host, **row}
WithHost(host, row) == row @@ ("host" :> host)

\* a collector that puts each result in front of the earlier ones
RecordedInFront(st, r) ==
    IF Truthy(r.err)
    THEN [st EXCEPT !.errors = <<[host |-> r.host, error |-> r.err]>> \o @]
    ELSE [st EXCEPT !.raw_outputs = <<<<r.host, r.output>>>> \o @]

\* the body of the collector loop up to the counter: what the collections hold
\* after the result r has been recorded
Recorded(st, r) ==
    IF Truthy(r.err)
    THEN [st EXCEPT !.errors = Append(@, [host |-> r.host, error |-> r.err])]
    ELSE LET st1 == [st EXCEPT !.raw_outputs = Append(@, <<r.host, r.output>>)]
             parsed == textfsm_parse(TEXTFSM_AVAILABLE, NET_TEXTFSM, Fallbacks,
                                     PlatformOf(device_type), command, r.output)
         IN  IF ~prefer_textfsm THEN st1
             ELSE IF parsed[1] # <<>>
             THEN [st1 EXCEPT !.structured_rows =
                      @ \o [k \in 1..Len(parsed[1]) |-> WithHost(r.host, parsed[1][k])]]
             ELSE IF app = "tkinter"
             THEN [st1 EXCEPT !.errors =
                      Append(@, [host |-> r.host, error |-> <<"TextFSM: ">> \o parsed[2]])]
             ELSE st1

\* a counter that counts only the successful results
done_after_success_only(d, r) == IF Truthy(r.err) THEN d ELSE d + 1

\* "done += 1" at the end of an iteration that recorded the result r
done_after(d, r) == d + 1

\* as_completed can yield future i: it has finished and was not yielded before
CanCollect(i) ==
    /\ pc = "collect"
    /\ i \in DOMAIN fut
    /\ fut[i].st = "finished"
    /\ \A k \in DOMAIN order : order[k] # i

\* one iteration of "for fut in as_completed(futures)": future i has finished and
\* was not yielded before.  An exception escaping fut.result() ends the loop.
Collect(i) ==
    /\ CanCollect(i)
    /\ order' = Append(order, i)
    /\ IF fut[i].res.raised
       THEN /\ pc' = "aborted"
            /\ UNCHANGED <<done, raw_outputs, errors, structured_rows>>
       ELSE /\ raw_outputs' = Recorded(Store, fut[i].res).raw_outputs
            /\ errors' = Recorded(Store, fut[i].res).errors
            /\ structured_rows' = Recorded(Store, fut[i].res).structured_rows
            /\ done' = done_after(done, fut[i].res)
            /\ pc' = IF Len(order) + 1 = Len(hosts) THEN "shutdown" ELSE "collect"
    /\ UNCHANGED <<settings, hosts, workers, submitted, fut, df_lines_all, running>>

\* all calls have returned (what the executor's shutdown(wait=True) waits for)
AllReturned == \A i \in DOMAIN fut : fut[i].st = "finished"

CanShutdown == pc \in {"shutdown", "aborted"} /\ AllReturned

\* The with-block is left (the pool is shut down, waiting for its threads).
\* The web front-end's script goes on to build the line corpus; the desktop
\* front-end's worker thread schedules _complete_collection on the UI thread,
\* unless an exception ended the thread before.
Shutdown ==
    /\ CanShutdown
    /\ IF app = "streamlit"
       THEN /\ df_lines_all' = df_from_raw(raw_outputs, TRUE, clock)
            /\ pc' = "done"
       ELSE /\ df_lines_all' = df_lines_all
            /\ pc' = IF pc = "aborted" THEN "dead" ELSE "complete"
    /\ UNCHANGED <<settings, hosts, workers, submitted, fut, order, done, raw_outputs,
                   errors, structured_rows, running>>

\* _complete_collection's callback runs on the UI thread: running is cleared and
\* the line corpus is built
CompleteCollection ==
    /\ pc = "complete"
    /\ running' = FALSE
    /\ df_lines_all' = df_from_raw(raw_outputs, TRUE, clock)
    /\ pc' = "done"
    /\ UNCHANGED <<settings, hosts, workers, submitted, fut, order, done, raw_outputs,
                   errors, structured_rows>>

\* a step of the pool's threads, the collector loop or the UI thread
ExecStep ==
    \/ Submit
    \/ \E i \in 1..MaxHosts : Start(i)
    \/ \E i \in 1..MaxHosts, b \in ExecBehaviours : Return(i, b)
    \/ \E i \in 1..MaxHosts : Collect(i)
    \/ Shutdown
    \/ CompleteCollection

Next ==
    \/ \E hs \in HostLists, w \in 1..MaxWorkers : StartCollection(hs, w)
    \/ ExecStep

\* every provider call returns
Spec == Init /\ [][Next]_vars

\* a provider call may also block for ever: run_command puts no bound of its own
\* on the call, and neither as_completed nor fut.result() is given a timeout
NextHang == Next \/ \E i \in 1..MaxHosts : Hang(i)

SpecHang == Init /\ [][NextHang]_vars

(* ----------------- the collector loop with any template ---------------- *)
\* the outputs the targets return
RecordOutputs == { <<"a", "b">>, <<"a", "b", NL, "a">>, <<"b">>, <<"c", NL, "a", "c">> }

\* The collector loop on its own, with either template directory in
\* NET_TEXTFSM: call.parsed lists, for each template-tier row stored, the target
\* whose output it was parsed from.
RecordInit ==
    /\ app \in {"streamlit", "tkinter"}
    /\ prefer_textfsm \in BOOLEAN
    /\ device_type = "cisco_xe"
    /\ command = CmdShowBlank
    /\ TEXTFSM_AVAILABLE = TRUE
    /\ NET_TEXTFSM \in {"tplA", "tplB"}
    /\ hosts = <<>>
    /\ workers = 1
    /\ pc = "idle"
    /\ submitted = 0
    /\ fut = <<>>
    /\ order = <<>>
    /\ done = 0
    /\ raw_outputs = <<>>
    /\ errors = <<>>
    /\ structured_rows = <<>>
    /\ df_lines_all = <<>>
    /\ running = FALSE
    /\ clock = 0
    /\ call = [op |-> "record", parsed |-> <<>>]

\* one iteration of the collector loop: the result r of a target is recorded
Record(r) ==
    /\ call.op = "record"
    /\ done < MaxPairs
    /\ LET st == Recorded(Store, r)
           n  == Len(st.structured_rows) - Len(structured_rows)
       IN  /\ raw_outputs' = st.raw_outputs
           /\ errors' = st.errors
           /\ structured_rows' = st.structured_rows
           /\ call' = [call EXCEPT !.parsed = @ \o [k \in 1..n |-> r.host]]
    /\ done' = done_after(done, r)
    /\ UNCHANGED <<app, prefer_textfsm, device_type, command, TEXTFSM_AVAILABLE,
                   NET_TEXTFSM, clock, hosts, workers, pc, submitted, fut, order,
                   df_lines_all, running>>

RecordNext ==
    \E h \in Hosts :
       \/ \E out \in RecordOutputs : Record(Result(h, out, <<>>))
       \/ Record(Result(h, <<>>, <<"e">>))

SpecRecord == RecordInit /\ [][RecordNext]_vars

(* ------------------------------ load_hosts ----------------------------- *)
RECURSIVE Universal(_)
\* universal newlines of a file opened in text mode: "\r\n" and "\r" are read
\* as "\n"
Universal(s) ==
    IF s = <<>> THEN <<>>
    ELSE IF Head(s) = CR /\ Len(s) > 1 /\ s[2] = NL THEN <<NL>> \o Universal(Tail(Tail(s)))
    ELSE IF Head(s) = CR THEN <<NL>> \o Universal(Tail(s))
    ELSE <<Head(s)>> \o Universal(Tail(s))

RECURSIVE ReadLines(_, _)
\* "for line in f": the lines of the text, each up to and with its "\n"; cur is
\* the line being read
ReadLines(s, cur) ==
    IF s = <<>> THEN (IF cur # <<>> THEN <<cur>> ELSE <<>>)
    ELSE IF Head(s) = NL THEN <<Append(cur, NL)>> \o ReadLines(Tail(s), <<>>)
    ELSE ReadLines(Tail(s), Append(cur, Head(s)))

\* the lines front-end a iterates over: those of io.StringIO(text), which ends a
\* line at "\n" only, in the web front-end; those of open(path, 'r'), with
\* universal newlines, in the desktop front-end
FileLines(a, text) == ReadLines(IF a = "tkinter" THEN Universal(text) ELSE text, <<>>)

\* load_hosts that lists every target once
load_hosts_once(a, text) ==
    LET lines == FileLines(a, text)
        stripped == SelectSeq([k \in 1..Len(lines) |-> Strip(lines[k])],
                              LAMBDA l : l # <<>> /\ Head(l) # "#")
    IN  SelectSeq([k \in 1..Len(stripped) |-> <<k, stripped[k]>>],
                  LAMBDA x : \A j \in 1..(x[1] - 1) : stripped[j] # x[2])

\* load_hosts_from_buf / load_hosts_from_path: the stripped lines that are not
\* empty and do not begin with "#"
load_hosts(a, text) ==
    LET lines == FileLines(a, text)
    IN  SelectSeq([k \in 1..Len(lines) |-> Strip(lines[k])],
                  LAMBDA l : l # <<>> /\ Head(l) # "#")

\* the texts of a hosts file
HostTexts == SeqsUpTo({"r", "#", " ", NL, CR}, MaxOutLen)

NoHosts == [called |-> FALSE, hosts |-> <<>>]

LoadHostsInit ==
    /\ FunctionInit
    /\ \E text \in HostTexts : call = [op |-> "load_hosts", text |-> text, ret |-> NoHosts]

CallLoadHosts ==
    /\ call.op = "load_hosts"
    /\ ~call.ret.called
    /\ call' = [call EXCEPT !.ret = [called |-> TRUE, hosts |-> load_hosts(app, call.text)]]
    /\ UNCHANGED collection

SpecLoadHosts == LoadHostsInit /\ [][CallLoadHosts]_vars

(* --------------------------- the Run request --------------------------- *)
\* the hosts files chosen: a comment only, an empty line, one target, two
RunTexts == { <<"#", "r">>, <<NL>>, R1, R1 \o <<NL>> \o R2 }

\* What the last Run request came to (last: "ignored" while a run is active,
\* "no_inputs", "no_hosts", "started"), the collections, the futures and the
\* position before it, req flipped by every request, and again: a run was
\* started after the first one.
RunInit ==
    /\ app \in {"streamlit", "tkinter"}
    /\ prefer_textfsm \in BOOLEAN
    /\ device_type = "cisco_xe"
    /\ command = CmdShowBlank
    /\ TEXTFSM_AVAILABLE = TRUE
    /\ NET_TEXTFSM = "tplA"
    /\ hosts = <<>>
    /\ workers = 1
    /\ pc = "idle"
    /\ submitted = 0
    /\ fut = <<>>
    /\ order = <<>>
    /\ done = 0
    /\ raw_outputs = <<>>
    /\ errors = <<>>
    /\ structured_rows = <<>>
    /\ df_lines_all = <<>>
    /\ running = FALSE
    /\ clock = 0
    /\ call = [op |-> "run", last |-> "none", req |-> FALSE, again |-> FALSE,
               before |-> Store, before_fut |-> fut, before_pc |-> pc]

\* a Run handler that does not look at self.running
NeverBusy(r) == FALSE

\* "if self.running: return"
Busy(r) == r

\* The Run button: _start_collection of the desktop front-end, the
\* "if run_btn and hosts_file" block of the web front-end (whose script runs
\* the whole collection before the next click is served).  inputs: a hosts file
\* is chosen and, in the desktop front-end, user name and password are given.
RunRequest(text, w, inputs) ==
    /\ call.op = "run"
    /\ app = "streamlit" => pc \in {"idle", "done"}
    /\ LET hs == load_hosts(app, text)
           outcome == IF app = "tkinter" /\ Busy(running) THEN "ignored"
                      ELSE IF ~inputs THEN "no_inputs"
                      ELSE IF hs = <<>> THEN "no_hosts"
                      ELSE "started"
       IN  /\ (outcome = "started" /\ pc # "idle") => ~call.again
           /\ call' = [call EXCEPT !.last = outcome, !.req = ~@,
                                   !.again = @ \/ (outcome = "started" /\ pc # "idle"),
                                   !.before = Store, !.before_fut = fut,
                                   !.before_pc = pc]
           /\ IF outcome = "started"
              THEN /\ hosts' = hs
                   /\ workers' = w
                   /\ raw_outputs' = <<>>
                   /\ errors' = <<>>
                   /\ structured_rows' = <<>>
                   /\ df_lines_all' = <<>>
                   /\ running' = (app = "tkinter")
                   /\ fut' = [i \in 1..Len(hs) |-> Pending]
                   /\ submitted' = 0
                   /\ order' = <<>>
                   /\ done' = 0
                   /\ pc' = "submit"
              ELSE IF app = "streamlit" /\ outcome = "no_hosts"
              THEN /\ raw_outputs' = <<>>
                   /\ errors' = <<>>
                   /\ structured_rows' = <<>>
                   /\ df_lines_all' = <<>>
                   /\ UNCHANGED <<hosts, workers, running, fut, submitted, order, done, pc>>
              ELSE UNCHANGED <<hosts, workers, raw_outputs, errors, structured_rows,
                               df_lines_all, running, fut, submitted, order, done, pc>>
    /\ UNCHANGED <<app, prefer_textfsm, device_type, command, TEXTFSM_AVAILABLE,
                   NET_TEXTFSM, clock>>

RunNext ==
    \/ \E text \in RunTexts, w \in {1, MaxWorkers}, inputs \in BOOLEAN :
          RunRequest(text, w, inputs)
    \/ ExecStep

SpecRun == RunInit /\ [][RunNext]_vars

(* --------------------- lookups and bundle loading ---------------------- *)
\* A template lookup (textfsm_parse, on the collector's thread) runs while
\* template bundles are loaded (_browse_templates, on the UI thread).  The
\* lookup reads NET_TEXTFSM once, in get_textfsm_index_and_dir, and hands the
\* index path and the directory it got to CliTable.  call holds the lookup's
\* arguments (c), where it is (at), its local tdir, its result (ret), and for
\* the record the value NET_TEXTFSM had when the lookup began (began) and the
\* directory of the last bundle loaded before it began (loaded_before).
LookupInit ==
    /\ app \in {"streamlit", "tkinter"}
    /\ prefer_textfsm = TRUE
    /\ device_type = "cisco_xe"
    /\ command = CmdShowBlank
    /\ TEXTFSM_AVAILABLE = TRUE
    /\ NET_TEXTFSM \in {NoDir, "empty", "tplA", "tplB"}
    /\ hosts = <<>>
    /\ workers = 1
    /\ pc = "idle"
    /\ submitted = 0
    /\ fut = <<>>
    /\ order = <<>>
    /\ done = 0
    /\ raw_outputs = <<>>
    /\ errors = <<>>
    /\ structured_rows = <<>>
    /\ df_lines_all = <<>>
    /\ running = FALSE
    /\ clock = 0
    /\ call = [op |-> "lookup", at |-> "idle", lookups |-> 0, loads |-> 0,
               c |-> CHOOSE c \in TierInputs : TRUE, tdir |-> NoDir, began |-> NoDir,
               loaded |-> NoDir, loaded_before |-> NoDir, ok |-> TRUE,
               ret |-> NoTierResult]

\* a lookup that reads NET_TEXTFSM again for the directory of the template files
TemplateDirReadAgain(tdir, env_dir) == env_dir

\* the directory CliTable(index, tdir) opens the template files in: the tdir
\* the lookup got from get_textfsm_index_and_dir
TemplateDir(tdir, env_dir) == tdir

\* cli = CliTable(index, tdir); cli.ParseCmd(output, attrs), with the index file
\* of index_dir and the template files of template_dir: what front-end a's
\* textfsm_parse returns from there on
ParseCmd(a, index_dir, template_dir, platform, cmd, output) ==
    LET attrs == {t \in DirIndex(index_dir) :
                     t.platform = platform /\ t.command = Strip(cmd)}
        files == {t \in DirIndex(template_dir) :
                     t.platform = platform /\ t.command = Strip(cmd)}
        tk == a = "tkinter"
        failed(reason) == [rows |-> <<>>, reason |-> IF tk THEN reason ELSE NoReason,
                           raised |-> FALSE]
    IN  IF index_dir = NoDir THEN failed(<<"templates index not found">>)
        ELSE IF attrs = {}
        THEN failed(<<"textfsm error: ", "No template found for attributes">>)
        ELSE IF files = {} THEN failed(<<"textfsm error: ", "No such file or directory">>)
        ELSE LET rows == TemplateRows(CHOOSE t \in files : TRUE, output)
             IN  IF rows = <<>>
                 THEN failed(<<"no rows parsed (template returned zero matches)">>)
                 ELSE [rows |-> rows, reason |-> IF tk THEN <<>> ELSE NoReason,
                       raised |-> FALSE]

\* textfsm_parse is called: it returns at once when there is nothing to parse,
\* else it reads NET_TEXTFSM in get_textfsm_index_and_dir
LookupBegin(c) ==
    /\ call.op = "lookup"
    /\ call.at = "idle"
    /\ call.lookups < MaxLookups
    /\ call' = [call EXCEPT
                  !.c = c,
                  !.lookups = @ + 1,
                  !.began = NET_TEXTFSM,
                  !.loaded_before = call.loaded,
                  !.tdir = IF Strip(c.output) = <<>> THEN NoDir
                           ELSE get_textfsm_index_and_dir(NET_TEXTFSM, Fallbacks),
                  !.at = IF Strip(c.output) = <<>> THEN "returned" ELSE "found",
                  !.ret = IF Strip(c.output) = <<>>
                          THEN [rows |-> <<>>,
                                reason |-> IF app = "tkinter"
                                           THEN <<"textfsm unavailable or empty output">>
                                           ELSE NoReason,
                                raised |-> FALSE]
                          ELSE NoTierResult]
    /\ UNCHANGED collection

\* the lookup goes on with the index and the directory it found
LookupEnd ==
    /\ call.op = "lookup"
    /\ call.at = "found"
    /\ call' = [call EXCEPT
                  !.at = "returned",
                  !.ret = ParseCmd(app, call.tdir, TemplateDir(call.tdir, NET_TEXTFSM),
                                   call.c.platform, call.c.command, call.c.output)]
    /\ UNCHANGED collection

\* the caller takes the result; the next lookup can begin
LookupReturn ==
    /\ call.op = "lookup"
    /\ call.at = "returned"
    /\ call.lookups < MaxLookups
    /\ call' = [call EXCEPT !.at = "idle"]
    /\ UNCHANGED collection

\* _browse_templates / the ZIP uploader: set_templates_from_zip on a bundle
\* unpacked to the directory d; NET_TEXTFSM is set only if d holds an index
BrowseTemplates(d) ==
    /\ call.op = "lookup"
    /\ call.loads < MaxLoads
    /\ NET_TEXTFSM' = IF HasIndex(d) THEN d ELSE NET_TEXTFSM
    /\ call' = [call EXCEPT !.loads = @ + 1,
                            !.ok = HasIndex(d),
                            !.loaded = IF HasIndex(d) THEN d ELSE @]
    /\ UNCHANGED <<app, prefer_textfsm, device_type, command, TEXTFSM_AVAILABLE, hosts,
                   workers, pc, submitted, fut, order, done, raw_outputs, errors,
                   structured_rows, df_lines_all, running, clock>>

LookupNext ==
    \/ \E c \in TierInputs : LookupBegin(c)
    \/ LookupEnd
    \/ LookupReturn
    \/ \E d \in {"empty", "tplA", "tplB"} : BrowseTemplates(d)

SpecLookup == LookupInit /\ [][LookupNext]_vars

(* ------------------------- set_templates_from_zip ---------------------- *)
\* A directory of an unpacked bundle is the sequence of the names on the way
\* down to it from the extraction root, a name a sequence of characters.
NameA == <<"a">>
NameB == <<"b">>
NameTemplates == <<"t", "e", "m", "p", "l", "a", "t", "e", "s">>

\* the extraction root, the directories below it and those below these
BundleDirs ==
    LET names == {NameA, NameB, NameTemplates}
    IN  {<<>>} \cup {<<n>> : n \in names} \cup {<<n, m>> : n \in names, m \in names}

\* A bundle: whether the file is a ZIP archive at all, and the directories of
\* it that hold a file named index.
Bundles ==
    {[zip |-> TRUE, index_dirs |-> ds] :
        ds \in {x \in SUBSET BundleDirs : Cardinality(x) <= MaxIndexDirs}}
    \cup {[zip |-> FALSE, index_dirs |-> {}]}

RECURSIVE PathLen(_)
\* len(root) for the directory p as os.walk names it, less len(temp_dir)
PathLen(p) == IF p = <<>> THEN 0 ELSE 1 + Len(Head(p)) + PathLen(Tail(p))

\* the candidates sorted(candidate_dirs, key=lambda p: len(p))[0] can be: those
\* of the least length (os.walk lists equally long ones in directory order)
Shortest(candidate_dirs) ==
    {p \in candidate_dirs : \A q \in candidate_dirs : PathLen(p) <= PathLen(q)}

\* what set_templates_from_zip returns
Loaded(ok, chosen) == [called |-> TRUE, ok |-> ok, chosen |-> chosen]
NotLoaded == [called |-> FALSE, ok |-> FALSE, chosen |-> <<>>]

BundleInit ==
    /\ FunctionInit
    /\ \E b \in Bundles : call = [op |-> "set_templates_from_zip", bundle |-> b,
                                   ret |-> NotLoaded]

\* set_templates_from_zip(bundle)
LoadBundle ==
    /\ call.op = "set_templates_from_zip"
    /\ ~call.ret.called
    /\ IF ~call.bundle.zip \/ call.bundle.index_dirs = {}
       THEN /\ call' = [call EXCEPT !.ret = Loaded(FALSE, <<>>)]
            /\ NET_TEXTFSM' = NET_TEXTFSM
       ELSE \E chosen \in Shortest(call.bundle.index_dirs) :
               /\ call' = [call EXCEPT !.ret = Loaded(TRUE, chosen)]
               /\ NET_TEXTFSM' = chosen
    /\ UNCHANGED <<app, prefer_textfsm, device_type, command, TEXTFSM_AVAILABLE, hosts,
                   workers, pc, submitted, fut, order, done, raw_outputs, errors,
                   structured_rows, df_lines_all, running, clock>>

SpecBundle == BundleInit /\ [][LoadBundle]_vars

(* ------------------------ the store after a run ------------------------ *)
\* What is done with the results once a collection has ended: filters, the
\* pattern tier, the split tier, the search of the structured view, and the two
\* downloads.  raw_outputs, structured_rows and df_lines_all are as the run left
\* them; call holds the rest of the DataStore (the frames the web front-end's
\* script builds on each run) and the last handler run.
StorePairs == { <<R1, <<"a", "b", NL, "b">> >>, <<R2, <<"a", " ", "b", " ", "b">> >> }

StoreRaws == SeqsUpTo(StorePairs, MaxPairs)

\* the template-tier rows a run over the outputs raw leaves
StructRowsOf(raw) ==
    Concat([k \in 1..Len(raw) |->
              LET rows == TemplateRows(Template("cisco_ios", CmdShow, <<"INTF", "STATUS">>, "a"),
                                       raw[k][2])
              IN  [i \in 1..Len(rows) |-> WithHost(raw[k][1], rows[i])]])

\* the patterns typed: none, ^(?P<a>a)(?P<b>.)$, "(", (?P<a>x)
StorePatterns ==
    { <<>>, <<"^", "(?P<a>", "a", ")", "(?P<b>", ".", ")", "$">>, <<"(">>,
      <<"(?P<a>", "x", ")">> }

\* the delimiters typed: none, "b", "whitespace"
StoreDelimiters == { <<>>, <<"b">>, WhitespaceWord }

\* the texts searched for in the structured view: none, "1", "x"
StoreSearches == { <<>>, <<"1">>, <<"x">> }

\* what the widgets of the page hold
Widgets ==
    [f : TierFilters, pattern : StorePatterns, delimiter : StoreDelimiters,
     maxsplit : {0, MaxSplit}, search : StoreSearches]

NoWidgets ==
    [f |-> RegexFilter(<<>>, <<>>), pattern |-> <<>>, delimiter |-> <<>>, maxsplit |-> 0,
     search |-> <<>>]

\* a download: the file name offered, the rows written, and whether anything
\* was written (the button is enabled, the frame handed to _save_df_csv is not
\* empty)
Export(name, rows, saved) == [name |-> name, rows |-> rows, saved |-> saved]
NoExport == Export("", <<>>, FALSE)

\* the last handler run: its name, the exception that left it ("" if none), and
\* the downloads it made or offers
Handled(handler, exc, best, lines) ==
    [handler |-> handler, exc |-> exc, best |-> best, lines |-> lines]

NoHandler == Handled("none", "", NoExport, NoExport)

StoreInit ==
    /\ app \in {"streamlit", "tkinter"}
    /\ prefer_textfsm \in BOOLEAN
    /\ device_type = "cisco_xe"
    /\ command = CmdShowBlank
    /\ TEXTFSM_AVAILABLE = TRUE
    /\ NET_TEXTFSM = "tplA"
    /\ hosts = <<>>
    /\ workers = 1
    /\ pc = "idle"
    /\ submitted = 0
    /\ fut = <<>>
    /\ order = <<>>
    /\ done = 0
    /\ raw_outputs \in StoreRaws
    /\ errors = <<>>
    /\ structured_rows = IF prefer_textfsm THEN StructRowsOf(raw_outputs) ELSE <<>>
    /\ df_lines_all = df_from_raw(raw_outputs, TRUE, 0)
    /\ running = FALSE
    /\ clock = 0
    /\ call = [op |-> "store", widgets |-> NoWidgets,
               df_filtered_lines |-> IF app = "tkinter" THEN EmptyFrame
                                     ELSE Frame(df_lines_all),
               df_regex |-> <<>>, df_split |-> <<>>, df_struct_filtered |-> <<>>,
               last |-> NoHandler]

\* store.df_struct: pd.DataFrame(structured_rows)
df_struct == structured_rows

\* the frame the tiers and the line download of the desktop front-end take:
\* df_filtered_lines unless it is empty, df_lines_all then
StoreSource ==
    IF IsEmpty(call.df_filtered_lines) THEN Frame(df_lines_all) ELSE call.df_filtered_lines

\* _apply_filters
StoreApplyFilters(f) ==
    /\ call.op = "store" /\ app = "tkinter"
    /\ call' = [call EXCEPT !.df_filtered_lines = FilteredFrame(Frame(df_lines_all), f),
                            !.last = Handled("apply_filters", "", NoExport, NoExport)]
    /\ UNCHANGED collection

\* _apply_regex_extract
StoreExtract(pattern) ==
    /\ call.op = "store" /\ app = "tkinter"
    /\ LET rx == regex_extract("tkinter", call.df_regex, StoreSource, pattern)
       IN  call' = [call EXCEPT !.df_regex = rx.df_regex,
                                !.last = Handled("regex_extract", rx.exc, NoExport, NoExport)]
    /\ UNCHANGED collection

\* _apply_split
StoreSplit(delimiter, maxsplit) ==
    /\ call.op = "store" /\ app = "tkinter"
    /\ LET sp == split_tier(StoreSource, delimiter, maxsplit)
       IN  call' = [call EXCEPT !.df_split = IF sp.exc = "" THEN sp.rows ELSE @,
                                !.last = Handled("split", sp.exc, NoExport, NoExport)]
    /\ UNCHANGED collection

\* df[mask] with mask the rows one of whose columns contains the text searched
AnyColumnContains(rows, search) ==
    SelectSeq(rows, LAMBDA r : \E c \in DOMAIN r : Search(search, r[c], TRUE))

\* _apply_struct_filters with "Any column"
StoreStructFilters(search) ==
    /\ call.op = "store" /\ app = "tkinter"
    /\ call' = [call EXCEPT
                  !.df_struct_filtered =
                      IF df_struct = <<>> THEN @
                      ELSE IF Strip(search) = <<>> THEN df_struct
                      ELSE AnyColumnContains(df_struct, Strip(search)),
                  !.last = Handled("struct_filters", "", NoExport, NoExport)]
    /\ UNCHANGED collection

\* _save_df_csv: nothing is written for an empty frame
save_df_csv(df, name) == Export(name, df, df # <<>>)

\* _download_structured_best
download_structured_best ==
    IF df_struct # <<>>
    THEN save_df_csv(IF call.df_struct_filtered # <<>> THEN call.df_struct_filtered
                     ELSE df_struct, "show_results_textfsm_structured.csv")
    ELSE IF call.df_regex # <<>>
    THEN save_df_csv(call.df_regex, "show_results_regex_structured.csv")
    ELSE IF call.df_split # <<>>
    THEN save_df_csv(call.df_split, "show_results_split_columns.csv")
    ELSE save_df_csv(StoreSource.rows, "show_results_filtered_lines.csv")

DownloadStructuredBest ==
    /\ call.op = "store" /\ app = "tkinter"
    /\ call' = [call EXCEPT !.last = Handled("download_structured_best", "",
                                             download_structured_best, NoExport)]
    /\ UNCHANGED collection

\* _download_filtered_lines
DownloadFilteredLines ==
    /\ call.op = "store" /\ app = "tkinter"
    /\ call' = [call EXCEPT !.last =
                  Handled("download_filtered_lines", "", NoExport,
                          save_df_csv(StoreSource.rows, "show_results_filtered_lines.csv"))]
    /\ UNCHANGED collection

\* One run of the web front-end's script from the filter panel to the download
\* buttons, on what the widgets w hold.  An exception that leaves the pattern or
\* the split expander ends the run: nothing below it is built.
script_run(w) ==
    LET filtered == FilteredFrame(Frame(df_lines_all), w.f)
        rx == regex_extract("streamlit", <<>>, filtered, w.pattern)
        sp == split_tier(filtered, w.delimiter, w.maxsplit)
        struct_filtered ==
            IF w.search = <<>> THEN df_struct
            ELSE SelectSeq(df_struct, LAMBDA r : Search(w.search, r.host, TRUE))
        best == IF df_struct # <<>>
                THEN Export("show_results_textfsm_structured.csv", struct_filtered, TRUE)
                ELSE IF rx.df_regex # <<>>
                THEN Export("show_results_regex_structured.csv", rx.df_regex, TRUE)
                ELSE IF sp.rows # <<>>
                THEN Export("show_results_split_columns.csv", sp.rows, TRUE)
                ELSE Export("show_results_filtered_lines.csv", filtered.rows,
                            ~IsEmpty(filtered))
        lines == Export("show_results_filtered_lines.csv", filtered.rows, ~IsEmpty(filtered))
        exc == IF rx.exc # "" THEN rx.exc ELSE sp.exc
    IN  [op |-> "store", widgets |-> w, df_filtered_lines |-> filtered,
         df_regex |-> IF rx.exc = "" THEN rx.df_regex ELSE <<>>,
         df_split |-> IF exc = "" THEN sp.rows ELSE <<>>,
         df_struct_filtered |-> IF exc = "" /\ df_struct # <<>> THEN struct_filtered ELSE <<>>,
         last |-> IF exc = "" THEN Handled("script", "", best, lines)
                  ELSE Handled("script", exc, NoExport, NoExport)]

\* the user changes one widget and the script runs again
ScriptRun(w) ==
    /\ call.op = "store" /\ app = "streamlit"
    /\ Cardinality({k \in DOMAIN w : w[k] # call.widgets[k]}) <= 1
    /\ call' = script_run(w)
    /\ UNCHANGED collection

StoreNext ==
    \/ \E f \in TierFilters : StoreApplyFilters(f)
    \/ \E pattern \in StorePatterns : StoreExtract(pattern)
    \/ \E delimiter \in StoreDelimiters, maxsplit \in {0, MaxSplit} :
          StoreSplit(delimiter, maxsplit)
    \/ \E search \in StoreSearches : StoreStructFilters(search)
    \/ DownloadStructuredBest
    \/ DownloadFilteredLines
    \/ \E w \in Widgets : ScriptRun(w)

SpecStore == StoreInit /\ [][StoreNext]_vars

(* ===================== properties of the collection ==================== *)
Range(f) == {f[i] : i \in DOMAIN f}

\* the run has left the collector loop with every result recorded
RunFinished == pc \in {"complete", "done"}
RunActive == pc \in {"submit", "collect", "shutdown"}

\* an errors entry written from run_command's error (the desktop front-end also
\* writes "TextFSM: ..." diagnostics of successful targets into errors)
IsTargetFailure(e) == e.error[1] # "TextFSM: "
TargetFailures == SelectSeq(errors, IsTargetFailure)

Failed(i) == Truthy(fut[i].res.err)
HasDuplicates(hs) == \E i, j \in DOMAIN hs : i # j /\ hs[i] = hs[j]
Recorded_(i) == \E k \in DOMAIN order : order[k] = i

\* C1: when a run finishes, the successes in raw_outputs plus the target-level
\* failures in errors are as many as the targets of the list, duplicates included,
\* for every worker count and every mix of outcomes.
C1_ResultCountEqualsTargetCount ==
    RunFinished => Len(raw_outputs) + Len(TargetFailures) = Len(hosts)

\* a finished run over a list with a duplicate, with successes and a timeout
C1_Witness ==
    /\ pc = "done"
    /\ Len(hosts) = MaxHosts
    /\ HasDuplicates(hosts)
    /\ raw_outputs # <<>>
    /\ \E k \in DOMAIN errors : errors[k].error = <<"Timeout">>

\* some thread of the run has a step to take
CanStep ==
    \/ CanSubmit
    \/ \E i \in DOMAIN fut : CanStart(i) \/ Calling(i) \/ CanCollect(i)
    \/ CanShutdown
    \/ pc = "complete"

C2_Inv ==
    /\ RunActive => CanStep
    /\ pc \notin {"aborted", "dead"}
    /\ RunFinished => \A i \in DOMAIN fut : Recorded_(i)

C2_NoCancel ==
    \A i \in DOMAIN fut :
        (i \in DOMAIN fut' /\ fut[i].st = "pending") => fut'[i].st \in {"pending", "running"}

C3_AtMostWInFlight == Cardinality(InFlight) <= workers

\* all workers busy while a submitted target waits
C3_Witness ==
    /\ workers = MaxWorkers
    /\ Len(hosts) > workers
    /\ Cardinality(InFlight) = workers
    /\ \E i \in 1..submitted : fut[i].st = "pending"

C4_Inv ==
    /\ done = Len(raw_outputs) + Len(TargetFailures)
    /\ done = Len(order)
    /\ done >= 0
    /\ done <= Len(hosts)
    /\ RunFinished => done = Len(hosts)

C4_Step ==
    \/ pc = "idle" /\ pc' = "submit" /\ done' = 0
    \/ done' = done
    \/ pc = "collect" /\ done' = done + 1 /\ Len(order') = Len(order) + 1

\* C4: the completed counter starts at 0, never decreases, grows by exactly one
\* with each result recorded and with nothing else, never exceeds the number of
\* targets and equals it when the run finishes; only the collector loop writes it.
C4_CompletedCounter == []C4_Inv /\ [][C4_Step]_vars

\* the counter in mid-run, a failure among the results counted
C4_Witness ==
    /\ pc = "collect"
    /\ done = 2
    /\ Len(hosts) = 3
    /\ TargetFailures # <<>>
    /\ raw_outputs # <<>>

\* C5: no target can block the pool: a run that has not finished always has a
\* step to take (a call that hangs is timed out and its worker freed), so that
\* every run finishes.
C5_NoTargetBlocksThePool == RunActive => CanStep

Occurrences(h) == Cardinality({i \in DOMAIN hosts : hosts[i] = h})
NumTargetFailures(h) == Len(SelectSeq(TargetFailures, LAMBDA e : e.host = h))
NumOutputs(h) == Len(SelectSeq(raw_outputs, LAMBDA o : o[1] = h))
HasErrorEntry(h) == \E k \in DOMAIN errors : errors[k].host = h
HasLineRecord(h) == \E k \in DOMAIN df_lines_all : df_lines_all[k].host = h

\* C7 as stated: after a run, a target has an entry in errors if and only if the
\* line corpus holds no LineRecord for it.
C7_ErrorEntryIffNoLineRecord ==
    pc = "done" => \A h \in Range(hosts) : HasErrorEntry(h) <=> ~HasLineRecord(h)

\* C7 as amended: after a run, for every target identifier the target-level
\* failure entries plus the recorded outputs are as many as its occurrences in
\* the list, and the corpus holds a LineRecord for it if and only if an output
\* was recorded for it; so a target listed once has a target-level failure entry
\* if and only if the corpus holds no LineRecord for it.
C7_TargetFailureIffNoLineRecord ==
    pc = "done" =>
      \A h \in Range(hosts) :
        /\ NumTargetFailures(h) + NumOutputs(h) = Occurrences(h)
        /\ HasLineRecord(h) <=> NumOutputs(h) > 0
        /\ Occurrences(h) = 1 => (NumTargetFailures(h) = 1 <=> ~HasLineRecord(h))

\* the desktop front-end after a run in which a target listed once returned no
\* output (a "TextFSM: ..." entry beside its sentinel record) and a target
\* listed twice failed once and succeeded once
C7_Witness ==
    /\ pc = "done"
    /\ app = "tkinter"
    /\ \E h \in Range(hosts) :
         Occurrences(h) = 1 /\ HasErrorEntry(h) /\ NumTargetFailures(h) = 0
    /\ \E h \in Range(hosts) :
         Occurrences(h) = 2 /\ NumTargetFailures(h) = 1 /\ NumOutputs(h) = 1

Contiguous(h) ==
    \A i, j, k \in DOMAIN df_lines_all :
        (i < j /\ j < k /\ df_lines_all[i].host = h /\ df_lines_all[k].host = h)
            => df_lines_all[j].host = h

\* the futures recorded as successes, in the order they were recorded
Successes == SelectSeq(order, LAMBDA i : ~Failed(i))

\* the records the corpus is to hold for the result of future i: its lines in
\* their order, numbered from 1, or the sentinel of a silent target
ExpectedBlock(i) ==
    LET ls == splitlines(fut[i].res.output)
    IN  IF ls = <<>> THEN <<LineRecord(hosts[i], None, <<>>, clock)>>
        ELSE [n \in 1..Len(ls) |-> LineRecord(hosts[i], n, ls[n], clock)]

\* C9 as stated: in the corpus built after a run all LineRecords of one target
\* are contiguous, for every target list the executor accepts.
C9_RecordsOfATargetContiguous ==
    pc = "done" => \A h \in Range(hosts) : Contiguous(h)

\* C9 as amended: the corpus is the sequence of the blocks of the recorded
\* successes, one block per result in the order the results were recorded, each
\* block holding that result's lines in their order; the records of a target
\* listed once are contiguous (a target listed more than once may have several
\* blocks with other targets' blocks between them).
C9_BlocksInRecordingOrder ==
    pc = "done" =>
      /\ df_lines_all = Concat([k \in 1..Len(Successes) |-> ExpectedBlock(Successes[k])])
      /\ \A h \in Range(hosts) : Occurrences(h) = 1 => Contiguous(h)

\* the second target of the list was recorded before the first, both with lines,
\* and its block comes first in the corpus
C9_Witness ==
    /\ pc = "done"
    /\ Len(Successes) >= 2
    /\ Successes[1] > Successes[2]
    /\ hosts[Successes[1]] # hosts[Successes[2]]
    /\ Len(ExpectedBlock(Successes[1])) = 2
    /\ df_lines_all[1].host = hosts[Successes[1]]
    /\ df_lines_all[Len(df_lines_all)].host = hosts[Successes[2]]

(* --------------------------- run_command ------------------------------- *)
\* the exception that ends the provider call, if any: the first one raised that
\* is not swallowed
FirstExc(b) ==
    IF Raised(b.imp) THEN b.imp
    ELSE IF Raised(b.conn) THEN b.conn
    ELSE IF Raised(b.cmd) THEN b.cmd
    ELSE IF Raised(b.disc) THEN b.disc
    ELSE NoExc

\* the kind of failure of the five kinds of the classification
FailureKind(b) ==
    LET e == FirstExc(b)
    IN  IF ~Raised(e) THEN "success"
        ELSE IF e.cls = ExcImport THEN "transport unavailable"
        ELSE IF e.cls = ExcAuth THEN "authentication failure"
        ELSE IF e.cls \in {ExcTimeout, ExcRead} THEN "timeout"
        ELSE IF e.cls = ExcConn THEN "transport error"
        ELSE "unknown error"

\* the except clause that takes the exception
HandlerKind(b) ==
    LET e == FirstExc(b)
    IN  IF ~Raised(e) THEN "success"
        ELSE IF e.cls = ExcImport THEN "import"
        ELSE IF e.cls = ExcAuth THEN "NetmikoAuthenticationException"
        ELSE IF e.cls = ExcTimeout THEN "NetmikoTimeoutException"
        ELSE "Exception"

\* the fixed part of the reason each except clause writes
ReasonOf(kind) ==
    CASE kind = "success" -> <<>>
      [] kind = "import" -> <<"Netmiko not available: ">>
      [] kind = "NetmikoAuthenticationException" -> <<"Authentication failed">>
      [] kind = "NetmikoTimeoutException" -> <<"Timeout">>
      [] kind = "Exception" -> <<"Error: ">>

\* the fixed part of a recorded reason
ReasonKind(r) == IF r.err = <<>> THEN <<>> ELSE <<r.err[1]>>

\* C6 as stated: two failures of different kinds among the five never leave the
\* same reason, and no exception escapes run_command.
C6_FiveKindsDistinctReasons ==
    (call.op = "run_command" /\ call.returned) =>
        /\ ~call.r1.raised /\ ~call.r2.raised
        /\ FailureKind(call.b1) # FailureKind(call.b2) => call.r1.err # call.r2.err

\* What run_command does guarantee: it never lets an exception escape; it returns
\* the output and no reason on success, and on failure no output and a reason of one of four kinds,
\* one per except clause: "Netmiko not available: ..." for a failed import,
\* "Authentication failed" for NetmikoAuthenticationException, "Timeout" for
\* NetmikoTimeoutException, "Error: <message>" for every other exception
\* (connection error, read timeout, unknown error alike); failures taken by
\* different clauses never leave the same reason.
C6_FourKindsDistinctReasons ==
    (call.op = "run_command" /\ call.returned) =>
        /\ \A x \in {<<call.b1, call.r1>>, <<call.b2, call.r2>>} :
              LET b == x[1]
                  r == x[2]
              IN  /\ ~r.raised
                  /\ r.host = call.host
                  /\ ReasonKind(r) = ReasonOf(HandlerKind(b))
                  /\ r.output = IF HandlerKind(b) = "success" THEN b.out ELSE <<>>
                  /\ HandlerKind(b) \in {"import", "Exception"} =>
                        r.err = ReasonOf(HandlerKind(b)) \o <<FirstExc(b).msg>>
        /\ HandlerKind(call.b1) # HandlerKind(call.b2) => call.r1.err # call.r2.err

\* a refused connection and an unknown error of the command leave the same
\* reason, the priming command having failed in one of the calls
C6_Witness ==
    /\ call.op = "run_command" /\ call.returned
    /\ FailureKind(call.b1) = "transport error"
    /\ FailureKind(call.b2) = "unknown error"
    /\ Raised(call.b1.prime)
    /\ call.r1.err = call.r2.err
    /\ call.r1.err = <<"Error: ", "refused">>

(* --------------------------- df_from_raw ------------------------------- *)
\* the positions where a line of s ends: a line feed, or a carriage return not
\* followed by one
LineEnds(s) ==
    {i \in 1..Len(s) : s[i] = NL \/ (s[i] = CR /\ ~(i < Len(s) /\ s[i + 1] = NL))}

\* the line ends of s, the end of the text counting when its last line is not
\* terminated
Ends(s) ==
    LineEnds(s) \cup (IF s # <<>> /\ s[Len(s)] \notin {NL, CR} THEN {Len(s) + 1} ELSE {})

\* N, the number of lines of an output
NumLines(output) == IF Truthy(output) THEN Cardinality(Ends(output)) ELSE 0

\* the n-th line end of s, 0 for n = 0
NthEnd(s, n) ==
    IF n = 0 THEN 0
    ELSE CHOOSE e \in Ends(s) : Cardinality({x \in Ends(s) : x < e}) = n - 1

\* the n-th line of s, without its terminator
NthLine(s, n) ==
    LET from == NthEnd(s, n - 1) + 1
        to   == IF NthEnd(s, n) > Len(s) THEN Len(s) ELSE NthEnd(s, n)
    IN  SelectSeq(SubSeq(s, from, to), LAMBDA c : c \notin {NL, CR})

\* the number of records of one pair
BlockLen(output, keep) ==
    IF NumLines(output) = 0 THEN (IF keep THEN 1 ELSE 0) ELSE NumLines(output)

RECURSIVE BlockStart(_, _, _)
\* the number of records before those of the k-th pair
BlockStart(outputs, k, keep) ==
    IF k = 1 THEN 0
    ELSE BlockStart(outputs, k - 1, keep) + BlockLen(outputs[k - 1][2], keep)

Contains(sub, text) ==
    \E pos \in 1..(Len(text) - Len(sub) + 1) :
        \A k \in 1..Len(sub) : Lower(text[pos + k - 1]) = Lower(sub[k])

\* whether a record passes every active stage of the settings f, the text
\* stages being literal substring tests and the regex stages pattern searches
PassesStages(rec, f) ==
    /\ f.host_contains # <<>> => Contains(f.host_contains, rec.host)
    /\ f.include_text # <<>> => Contains(f.include_text, rec.line)
    /\ f.exclude_text # <<>> => ~Contains(f.exclude_text, rec.line)
    /\ (f.include_regex # <<>> /\ Compiles(f.include_regex))
          => Search(f.include_regex, rec.line, TRUE)
    /\ (f.exclude_regex # <<>> /\ Compiles(f.exclude_regex))
          => ~Search(f.exclude_regex, rec.line, TRUE)

\* C11: apply_filters returns the records of the corpus, in order, that pass
\* every active stage: host contains, line contains, line does not contain (all
\* three literal substrings, case-insensitive), line matches, line does not
\* match; a stage with an empty field removes nothing.
C11_SubsequencePassingEveryStage ==
    (call.op = "apply_filters" /\ call.calls >= 1) =>
        /\ ~call.ret1.raised
        /\ call.ret1.df = SelectSeq(call.df, LAMBDA rec : PassesStages(rec, call.f))

\* the settings with every regex field that does not compile emptied
WithoutInvalidRegex(f) ==
    [f EXCEPT !.include_regex = IF Compiles(@) THEN @ ELSE <<>>,
              !.exclude_regex = IF Compiles(@) THEN @ ELSE <<>>]

\* C12: apply_filters never raises, whatever the settings; with an include or
\* exclude regex that does not compile it returns what it returns with that
\* field empty.
C12_NeverRaisesInvalidIsAbsent ==
    (call.op = "apply_filters" /\ call.calls >= 1) =>
        /\ ~call.ret1.raised
        /\ call.ret1.df = Filtered(call.df, WithoutInvalidRegex(call.f)).df

\* C13 as stated: the corpus given to apply_filters holds the same records after
\* the call as before, and the frame returned is never the object given.
C13_InputKeptResultNew ==
    (call.op = "apply_filters" /\ call.calls >= 1) =>
        /\ call.ret1.arg = call.df
        /\ ~call.ret1.raised => ~call.ret1.same

\* C13 as amended: the corpus given to apply_filters holds the same records in
\* the same order after the call as before, also when the call raises; when the
\* call returns, the frame returned is a new object if the corpus has records,
\* and the corpus object itself if it has none.
C13_InputKeptResultNewUnlessEmpty ==
    (call.op = "apply_filters" /\ call.calls >= 1) =>
        /\ call.ret1.arg = call.df
        /\ ~call.ret1.raised => (call.ret1.same <=> call.df = <<>>)

\* a call that dropped some records of a corpus and left the corpus whole
C13_Witness ==
    /\ call.op = "apply_filters" /\ call.calls = 1
    /\ ~call.ret1.raised
    /\ Len(call.ret1.df) > 0
    /\ Len(call.ret1.df) < Len(call.df)
    /\ call.ret1.arg = call.df
    /\ ~call.ret1.same

(* ---------------------- df_from_raw called twice ----------------------- *)
\* C14 as stated: two calls of df_from_raw with the same pairs and the same
\* keep_empty_rows return equal records in every field, whenever they are made.
C14_SameInputSameRecords ==
    (call.op = "df_from_raw twice" /\ call.calls = 2) => call.ret2 = call.ret1

\* C14 as amended: two calls of df_from_raw with the same pairs and the same
\* keep_empty_rows return as many records, equal one by one in host, line_no and
\* line; ts is in every record of a call the reading of the clock at that call,
\* so that the two results are equal in every field exactly when the clock reads
\* the same at both calls or no record is returned.
C14_SameRecordsButForTheTimeOfTheCall ==
    (call.op = "df_from_raw twice" /\ call.calls = 2) =>
        /\ Len(call.ret2) = Len(call.ret1)
        /\ \A k \in DOMAIN call.ret1 :
              /\ call.ret2[k].host = call.ret1[k].host
              /\ call.ret2[k].line_no = call.ret1[k].line_no
              /\ call.ret2[k].line = call.ret1[k].line
              /\ call.ret1[k].ts = call.at1
              /\ call.ret2[k].ts = call.at2
        /\ (call.ret2 = call.ret1) <=> (call.at1 = call.at2 \/ call.ret1 = <<>>)

\* the second call made later than the first, on pairs that give a sentinel and
\* two lines
C14_Witness ==
    /\ call.op = "df_from_raw twice" /\ call.calls = 2
    /\ call.at1 < call.at2
    /\ call.keep_empty_rows
    /\ Len(call.ret1) = 3
    /\ call.ret1[1].line_no = None
    /\ call.ret1[3].line_no = 2
    /\ call.ret2 # call.ret1

(* --------------------------- template tier ----------------------------- *)
\* what a call of the template tier meets, told from its inputs: TextFSM
\* missing, an output of blanks only, no template directory, no template for
\* the (platform, trimmed command) pair, a template that matches no line, or
\* rows
TierCase(available, env_dir, c) ==
    IF ~available THEN "unavailable"
    ELSE IF \A k \in DOMAIN c.output : c.output[k] \in {" ", NL, CR} THEN "empty output"
    ELSE IF ~HasIndex(env_dir) THEN "no template directory"
    ELSE IF ~\E t \in DirIndex(env_dir) :
                /\ t.platform = c.platform
                /\ t.command = SelectSeq(c.command, LAMBDA ch : ch # " ")
         THEN "no template"
    ELSE IF ~\E t \in DirIndex(env_dir) :
                /\ t.platform = c.platform
                /\ t.command = SelectSeq(c.command, LAMBDA ch : ch # " ")
                /\ \E l \in Range(splitlines(c.output)) : l # <<>> /\ l[1] = t.key
         THEN "no match"
    ELSE "rows"

Case1 == TierCase(TEXTFSM_AVAILABLE, call.env1, call.c1)
Case2 == TierCase(TEXTFSM_AVAILABLE, call.env2, call.c2)

\* a reason that tells the caller that no template exists for the pair
TellsNoTemplate(reason) ==
    \/ reason = <<"no template">>
    \/ Len(reason) = 2 /\ reason[2] = "No template found for attributes"

\* C15: on a (platform, trimmed command) pair absent from the registry the
\* template tier returns no rows and a reason that tells that there is no
\* template; no exception escapes and the miss is not swallowed.
C15_MissReturnsNoTemplateReason ==
    (call.op = "textfsm_parse" /\ call.calls >= 1 /\ Case1 = "no template") =>
        /\ ~call.r1.raised
        /\ call.r1.rows = <<>>
        /\ call.r1.reason # NoReason
        /\ TellsNoTemplate(call.r1.reason)

\* C16: the template tier tells its empty outcomes apart: the reason returned
\* when a template exists and matches no line differs from the one returned
\* when no template exists, when the output is empty and when there is no
\* template directory.
C16_NoMatchReasonDistinct ==
    (call.op = "textfsm_parse" /\ call.calls = 2) =>
        /\ Case1 = "no match" => call.r1.reason # NoReason
        /\ ( /\ Case1 = "no match"
             /\ Case2 \in {"no template", "empty output", "no template directory"} )
              => call.r1.reason # call.r2.reason
        /\ ( /\ Case2 = "no match"
             /\ Case1 \in {"no template", "empty output", "no template directory"} )
              => call.r1.reason # call.r2.reason

\* the last use of a tier
LastTier == IF call.op = "tiers" THEN call.last ELSE NoTier

\* the exception a tier left the handler with, "" when none
TierRaised(last) ==
    IF last.tier = "pattern" THEN last.rx.exc
    ELSE IF last.tier = "split" THEN last.sp.exc
    ELSE ""

\* C17: no extraction tier raises, whatever the corpus (the empty corpus of no
\* records included), the pattern, the delimiter and the "Max splits" are.
C17_NoTierRaises == TierRaised(LastTier) = ""

\* whether every group of the pattern p is a named one, and there is one
NamedGroups(p) ==
    /\ Openers(p) # <<>>
    /\ \A g \in 1..Len(Openers(p)) : GroupName(p[Openers(p)[g]]) # ""

\* the rows the pattern p should give on the lines of rows: one row per line
\* that matches, in the order of the lines
MatchingLines(rows, p) == SelectSeq(rows, LAMBDA r : Search(p, r.line, TRUE))

\* whether the row got of the pattern result is the line want with its captures
RowOfMatch(got, want, p) ==
    /\ got.host = want.host
    /\ got.line_no = want.line_no
    /\ got.line = want.line
    /\ \A g \in 1..Len(Openers(p)) :
          got.vals[ColumnOfGroup(p, g)]
            = Captured(p, want.line, FirstMatch(p, want.line, TRUE), g)

\* C18: with a pattern of named groups, the rows of the pattern tier are exactly
\* the lines of the corpus it is applied to that match, one row per matching
\* line, in corpus order, each with its named captures.
C18_RowsAreMatchingLinesInOrder ==
    LET last == LastTier
        want == MatchingLines(last.src.rows, last.pattern)
        got  == last.rx.df_regex
    IN  (last.tier = "pattern" /\ last.src.rows # <<>>
         /\ Compiles(last.pattern) /\ NamedGroups(last.pattern))
        => /\ last.rx.exc = ""
           /\ Len(got) = Len(want)
           /\ \A k \in 1..Len(want) : RowOfMatch(got[k], want[k], last.pattern)

\* whether some line of rows matches the pattern p
SomeLineMatches(rows, p) == \E k \in DOMAIN rows : Search(p, rows[k].line, TRUE)

\* C19: the pattern tier tells three outcomes apart: a pattern that does not
\* compile gives the compile-error reason and no rows; a pattern that compiles
\* and matches no line is a success with zero rows, and the stored pattern
\* result becomes empty; a pattern that compiles and matches gives rows.
C19_ThreeOutcomes ==
    LET last == LastTier
        p    == last.pattern
    IN  (last.tier = "pattern" /\ p # <<>>)
        => /\ last.rx.exc = ""
           /\ ~Compiles(p) => last.rx.outcome = "Invalid regex"
           /\ (Compiles(p) /\ ~SomeLineMatches(last.src.rows, p))
                 => last.rx.outcome # "Invalid regex" /\ last.rx.df_regex = <<>>
           /\ (Compiles(p) /\ SomeLineMatches(last.src.rows, p))
                 => last.rx.outcome = "Extracted columns" /\ last.rx.df_regex # <<>>

RECURSIVE Join(_, _)
\* the parts written one after the other with sep between them
Join(parts, sep) ==
    IF parts = <<>> THEN <<>>
    ELSE IF Len(parts) = 1 THEN parts[1]
    ELSE parts[1] \o sep \o Join(Tail(parts), sep)

\* the text with every run of blanks made one blank, no blank at either end
CollapseBlanks(t) ==
    LET s == Strip(t)
    IN  SelectSeq([i \in 1..Len(s) |-> <<i, s[i]>>],
                  LAMBDA x : ~IsSpace(x[2]) \/ ~IsSpace(s[x[1] - 1]))

HasBlank(t) == \E i \in DOMAIN t : IsSpace(t[i])

\* whether parts is the line cut at the delimiter, at most maxsplit times when
\* maxsplit > 0: the parts give the line back, none but the last holds a
\* delimiter, and the last holds one only when the limit is reached
IsPartition(parts, line, delimiter, maxsplit) ==
    LET n == Len(parts)
        whitespace == [k \in DOMAIN delimiter |-> Lower(delimiter[k])] = WhitespaceWord
        holds(part) == IF whitespace THEN HasBlank(part)
                       ELSE \E pos \in 1..(Len(part) - Len(delimiter) + 1) :
                               SubSeq(part, pos, pos + Len(delimiter) - 1) = delimiter
    IN  /\ maxsplit > 0 => n <= maxsplit + 1
        /\ \A i \in 1..(n - 1) : ~holds(parts[i])
        /\ n > 0 /\ holds(parts[n]) => maxsplit > 0 /\ n = maxsplit + 1
        /\ IF whitespace
           THEN /\ \A i \in 1..n : parts[i] # <<>> /\ Strip(parts[i]) = parts[i]
                /\ [i \in 1..Len(CollapseBlanks(Join(parts, <<" ">>))) |->
                       CollapseBlanks(Join(parts, <<" ">>))[i][2]]
                     = [i \in 1..Len(CollapseBlanks(line)) |-> CollapseBlanks(line)[i][2]]
           ELSE n > 0 /\ Join(parts, delimiter) = line

\* the parts of a row of the split result: the columns c0, c1, ... up to the
\* first absent one
PartsOfRow(row, width) ==
    LET n == Cardinality({c \in 0..(width - 1) : row.vals[c] # NaN})
    IN  [i \in 1..n |-> row.vals[i - 1]]

\* C20: the split tier cuts every line of the corpus it is applied to at the
\* delimiter ("whitespace": at runs of blanks), at most maxsplit times when
\* maxsplit > 0 and without limit when it is 0; the columns c0..c(k-1) are as
\* many as the widest row has parts, and shorter rows are filled with absent
\* values.
C20_SplitPartitionsEveryLine ==
    LET last == LastTier
        rows == last.src.rows
        sp   == last.sp
    IN  (last.tier = "split" /\ rows # <<>> /\ Strip(last.delimiter) # <<>>)
        => /\ sp.exc = ""
           /\ Len(sp.rows) = Len(rows)
           /\ \A k \in 1..Len(rows) :
                 /\ sp.rows[k].host = rows[k].host
                 /\ sp.rows[k].line_no = rows[k].line_no
                 /\ sp.rows[k].line = rows[k].line
                 /\ DOMAIN sp.rows[k].vals = 0..(sp.width - 1)
                 /\ \A c \in 0..(sp.width - 1) :
                       sp.rows[k].vals[c] = NaN
                         <=> c >= Len(PartsOfRow(sp.rows[k], sp.width))
                 /\ IsPartition(PartsOfRow(sp.rows[k], sp.width), rows[k].line,
                                last.delimiter, last.maxsplit)
           /\ sp.width = Widest({Len(PartsOfRow(sp.rows[k], sp.width)) : k \in 1..Len(rows)})

\* the last handler run on the store
LastHandled == IF call.op = "store" THEN call.last ELSE NoHandler

\* the best-available download has just been made (desktop) or offered (web)
BestExported ==
    LastHandled.handler \in {"download_structured_best", "script"} /\ LastHandled.exc = ""

\* the filtered corpus: the whole corpus as long as no filter has been applied
\* (the desktop front-end's df_filtered_lines is pd.DataFrame() until then)
FilteredCorpus ==
    IF call.df_filtered_lines.columns THEN call.df_filtered_lines.rows
    ELSE Frame(df_lines_all).rows

\* the first non-empty of: template rows, pattern rows, split rows, filtered lines
FirstNonEmptyTier ==
    IF df_struct # <<>> THEN df_struct
    ELSE IF call.df_regex # <<>> THEN call.df_regex
    ELSE IF call.df_split # <<>> THEN call.df_split
    ELSE FilteredCorpus

\* C21: the best-available export gives the first non-empty of template rows,
\* pattern rows, split rows and filtered lines: the template rows whenever there
\* are any, whatever the pattern and split results are, and nothing only if
\* every tier and the filtered corpus are empty.
C21_BestAvailablePriority ==
    BestExported
    => /\ LastHandled.best.rows = FirstNonEmptyTier
       /\ LastHandled.best.saved <=> FirstNonEmptyTier # <<>>

\* a lookup that went as far as CliTable has returned
LookupParsed ==
    call.op = "lookup" /\ call.at = "returned" /\ Strip(call.c.output) # <<>>

\* C22: a lookup that begins after a bundle was loaded uses the directory of the
\* last bundle loaded, and a lookup in flight while bundles are loaded returns
\* what a lookup wholly against the directory current when it began returns.
C22_LookupUsesOneDirectory ==
    /\ (call.op = "lookup" /\ call.at = "found" /\ call.loaded_before # NoDir)
          => call.tdir = call.loaded_before
    /\ LookupParsed
          => call.ret = TemplateTier(app, TEXTFSM_AVAILABLE, call.began, Fallbacks,
                                     call.c.platform, call.c.command, call.c.output)

\* a lookup began under tplA, tplB was loaded while it was in flight, and it
\* returned rows
C22_Witness ==
    /\ LookupParsed
    /\ call.began = "tplA"
    /\ NET_TEXTFSM = "tplB"
    /\ call.loaded_before = NoDir
    /\ call.ret.rows # <<>>

\* set_templates_from_zip has returned
BundleLoaded == call.op = "set_templates_from_zip" /\ call.ret.called

\* C23: of the directories of the unpacked bundle that hold an index file,
\* loading chooses one no other is shallower than, whatever the layout; with no
\* such directory it returns an error.
C23_ShallowestIndexDirectory ==
    BundleLoaded
    => IF call.bundle.index_dirs = {} THEN ~call.ret.ok
       ELSE /\ call.ret.ok
            /\ call.ret.chosen \in call.bundle.index_dirs
            /\ \A p \in call.bundle.index_dirs : Len(call.ret.chosen) <= Len(p)

\* where the lines of a hosts file end: at "\n"; in the desktop front-end also
\* at "\r" (a "\r\n" counts once); at the end of the text if its last line is not
\* terminated
HostLineEnds(a, text) ==
    {i \in 1..Len(text) :
        \/ text[i] = NL
        \/ a = "tkinter" /\ text[i] = CR /\ ~(i < Len(text) /\ text[i + 1] = NL)}
    \cup (IF text # <<>> /\ Len(text) \notin
                {i \in 1..Len(text) :
                    text[i] = NL \/ (a = "tkinter" /\ text[i] = CR)}
          THEN {Len(text) + 1} ELSE {})

\* the input lines of a hosts file, without their terminators
InputLines(a, text) ==
    LET ends == HostLineEnds(a, text)
        nth(n) == IF n = 0 THEN 0
                  ELSE CHOOSE e \in ends : Cardinality({x \in ends : x < e}) = n - 1
    IN  [n \in 1..Cardinality(ends) |->
            LET line == SubSeq(text, nth(n - 1) + 1, nth(n) - 1)
            IN  IF a = "tkinter" /\ line # <<>> /\ line[Len(line)] = CR
                THEN SubSeq(line, 1, Len(line) - 1) ELSE line]

HostsLoaded == call.op = "load_hosts" /\ call.ret.called

\* C24 as stated: the targets are exactly the input lines that are neither
\* blank nor begin with "#", in their order, duplicates kept.
C24_TargetsAreTheInputLines ==
    HostsLoaded
    => call.ret.hosts = SelectSeq(InputLines(app, call.text),
                                  LAMBDA l : Strip(l) # <<>> /\ Head(l) # "#")

\* C24: the targets are the input lines with the white space at both ends
\* removed, those left out that are then empty or begin with "#", in their
\* order, duplicates kept.
C24_TargetsAreTheStrippedInputLines ==
    HostsLoaded
    => LET lines == InputLines(app, call.text)
           kept  == SelectSeq(lines, LAMBDA l : Strip(l) # <<>> /\ Head(Strip(l)) # "#")
       IN  call.ret.hosts = [k \in 1..Len(kept) |-> Strip(kept[k])]

\* a hosts file that names the same target on two lines
C24_Witness ==
    /\ HostsLoaded
    /\ call.text = <<"r", NL, "r">>
    /\ call.ret.hosts = <<<<"r">>, <<"r">>>>

\* C25: every template-tier row stored carries as its host the target whose
\* output it was parsed from, whatever fields the template defines.
C25_RowsCarryTheirTarget ==
    call.op = "record"
    => /\ Len(structured_rows) = Len(call.parsed)
       /\ \A k \in 1..Len(structured_rows) : structured_rows[k].host = call.parsed[k]

\* the tier was applied to records that do not carry the labels 0..n-1
RelabelledSource(last) == Labels(last.src.rows) # 0..(Len(last.src.rows) - 1)

\* C26: every row of the pattern tier and of the split tier pairs the host,
\* line_no and line of one record of the corpus it is applied to with the
\* captures or parts of that record's line, and no record gives more than one
\* row (the split tier: exactly one), also for a filtered corpus whose records
\* do not carry the labels 0..n-1.
C26_RowsPairOneRecordWithItsOwnColumns ==
    LET last == LastTier
        rows == last.src.rows
    IN  /\ (last.tier = "pattern" /\ rows # <<>> /\ Compiles(last.pattern)
            /\ Openers(last.pattern) # <<>> /\ last.rx.exc # "TypeError")
           => /\ last.rx.exc = ""
              /\ \E at \in [DOMAIN last.rx.df_regex -> DOMAIN rows] :
                    /\ \A i, j \in DOMAIN last.rx.df_regex : i < j => at[i] < at[j]
                    /\ \A i \in DOMAIN last.rx.df_regex :
                          /\ Search(last.pattern, rows[at[i]].line, TRUE)
                          /\ RowOfMatch(last.rx.df_regex[i], rows[at[i]], last.pattern)
        /\ (last.tier = "split" /\ rows # <<>> /\ Strip(last.delimiter) # <<>>
            /\ last.sp.exc # "re.error")
           => /\ last.sp.exc = ""
              /\ Len(last.sp.rows) = Len(rows)
              /\ \A k \in 1..Len(rows) :
                    /\ last.sp.rows[k].host = rows[k].host
                    /\ last.sp.rows[k].line_no = rows[k].line_no
                    /\ last.sp.rows[k].line = rows[k].line
                    /\ IsPartition(PartsOfRow(last.sp.rows[k], last.sp.width),
                                   rows[k].line, last.delimiter, last.maxsplit)

\* the filter applied excludes every record of a corpus that has records
ExcludesEveryRecord ==
    /\ call.op = "store"
    /\ call.df_filtered_lines.columns
    /\ call.df_filtered_lines.rows = <<>>
    /\ df_lines_all # <<>>

\* C27: while the filter applied excludes every record, the pattern tier and
\* the split tier yield no rows and the filtered-lines export holds no rows:
\* none of them takes the unfiltered corpus instead.
C27_EmptyFilteredCorpusYieldsNothing ==
    [][ExcludesEveryRecord'
        => /\ call'.last.handler = "regex_extract" => call'.df_regex \in {<<>>, call.df_regex}
           /\ call'.last.handler = "split" => call'.df_split = <<>>
           /\ call'.last.handler = "download_filtered_lines"
                 => call'.last.lines.rows = <<>> /\ ~call'.last.lines.saved
           /\ (call'.last.handler = "script" /\ call'.last.exc = "")
                 => /\ call'.df_regex = <<>>
                    /\ call'.df_split = <<>>
                    /\ call'.last.lines.rows = <<>>]_vars

\* C28: a Run request rejected because the hosts input yields no targets
\* dispatches no provider invocation and leaves the raw outputs, the errors and
\* the structured rows collected before as they were.
C28_RejectedRunChangesNothing ==
    (call.op = "run" /\ call.last = "no_hosts")
    => /\ Store = call.before
       /\ fut = call.before_fut
       /\ pc = call.before_pc

\* whether s is t or a beginning of it
IsPrefix(s, t) == Len(s) <= Len(t) /\ SubSeq(t, 1, Len(s)) = s

\* C29: in the desktop front-end one collection run at most is active: running
\* is set exactly while a run is between its start and its completion, and as
\* long as it is set, a Run request changes nothing, no step starts a second
\* pool, and the three collections only grow at their end.
C29_OneRunAppendOnly ==
    [][app = "tkinter"
       => /\ running <=> pc \notin {"idle", "done"}
          /\ running
               => /\ IsPrefix(raw_outputs, raw_outputs')
                  /\ IsPrefix(errors, errors')
                  /\ IsPrefix(structured_rows, structured_rows')
                  /\ hosts' = hosts /\ workers' = workers
                  /\ Len(fut') = Len(fut) /\ submitted' >= submitted
                  /\ call'.req # call.req => UNCHANGED collection]_vars

\* a Run request was made while a run with results collected was active
C29_Witness ==
    /\ call.op = "run" /\ app = "tkinter"
    /\ call.last = "ignored"
    /\ running
    /\ raw_outputs # <<>>

\* the best-available download of the desktop front-end has just written
\* pattern-tier or split-tier rows
TierRowsExported ==
    /\ app = "tkinter"
    /\ LastHandled.handler = "download_structured_best"
    /\ LastHandled.best.saved
    /\ LastHandled.best.name \in {"show_results_regex_structured.csv",
                                  "show_results_split_columns.csv"}

\* whether the row's host, line_no and line are those of a record of corpus
IsRecordOf(row, corpus) ==
    \E k \in DOMAIN corpus :
        /\ row.host = corpus[k].host
        /\ row.line_no = corpus[k].line_no
        /\ row.line = corpus[k].line

\* C30: in the desktop front-end, whenever the best-available export writes
\* pattern-tier or split-tier rows, the line of every row written is a record of
\* the filtered corpus stored at that moment.
C30_ExportedRowsAreOfTheFilteredCorpus ==
    TierRowsExported
    => \A i \in DOMAIN LastHandled.best.rows :
          IsRecordOf(LastHandled.best.rows[i], FilteredCorpus)
====

